---- MODULE Spec2Model ----
(***************************************************************************)
(* Model of the OpenAPI parser of implementation/rust/src/parser.rs:       *)
(* the stored document, the reference resolver and the composition         *)
(* resolver.                                                               *)
(*                                                                         *)
(* Strings are sequences of symbols.  The symbols "#", "/" and "." are the *)
(* characters themselves; every other symbol stands for a non-empty run of *)
(* characters that contains none of them ("components", "A", ...).         *)
(* Option<T> is a sequence of length 0 (None) or 1 (Some).                 *)
(* An IndexMap is a sequence of [name, value] records with distinct names. *)
(*                                                                         *)
(* A caller makes one call at a time (pc = "idle"), the call runs to its   *)
(* result (pc = "done") and the caller takes it (Return).  The recursion   *)
(* of resolve_reference_with_visited is run one activation per step        *)
(* (pc = "resolving"); the calls that resolve_schema makes to it use the   *)
(* same activation, ResolveReferenceFrame, as a recursive operator.        *)
(*                                                                         *)
(* Two further specifications share the parser: ParSpec runs resolve_schema *)
(* calls of several worker threads against one stored document, and        *)
(* GenSpec runs the generator of implementation/rust/src/generator.rs.     *)
(***************************************************************************)
EXTENDS Integers, Sequences, FiniteSets, TLC

VARIABLES spec, pc, call, reference, visited, lookups, schemas, result,
          workers, gen

vars == <<spec, pc, call, reference, visited, lookups, schemas, result,
          workers, gen>>

\* ------------------------------------------------------------------------
\* Option
\* ------------------------------------------------------------------------
None == <<>>

Some(v) == <<v>>

IsSome(o) == Len(o) = 1

IsNone(o) == Len(o) = 0

Unwrap(o) == o[1]

\* ------------------------------------------------------------------------
\* Strings
\* ------------------------------------------------------------------------
Str(w) == <<w>>

\* only the first character is compared
StartsWithFirstOnly(s, prefix) ==
    /\ Len(s) >= 1
    /\ s[1] = prefix[1]

StartsWith(s, prefix) ==
    /\ Len(s) >= Len(prefix)
    /\ SubSeq(s, 1, Len(prefix)) = prefix

\* str::split('/'): always at least one segment, empty segments are kept
RECURSIVE Split(_)
Split(s) ==
    IF \A i \in 1..Len(s) : s[i] # "/"
    THEN <<s>>
    ELSE LET i == CHOOSE k \in 1..Len(s) :
                     /\ s[k] = "/"
                     /\ \A j \in 1..(k - 1) : s[j] # "/"
         IN <<SubSeq(s, 1, i - 1)>> \o Split(SubSeq(s, i + 1, Len(s)))

\* [&str]::join("/")
RECURSIVE Join(_)
Join(parts) ==
    IF Len(parts) = 0 THEN <<>>
    ELSE IF Len(parts) = 1 THEN parts[1]
    ELSE parts[1] \o <<"/">> \o Join(Tail(parts))

\* ------------------------------------------------------------------------
\* IndexMap
\* ------------------------------------------------------------------------
Keys(m) == {m[i].name : i \in 1..Len(m)}

ContainsKey(m, k) == k \in Keys(m)

IndexOf(m, k) == CHOOSE i \in 1..Len(m) : m[i].name = k

\* IndexMap::get
Get(m, k) == IF ContainsKey(m, k) THEN Some(m[IndexOf(m, k)].value) ELSE None

\* IndexMap::insert: a new key is appended, an existing key keeps its
\* position and takes the new value
Insert(m, k, v) ==
    IF ContainsKey(m, k)
    THEN [m EXCEPT ![IndexOf(m, k)] = [name |-> k, value |-> v]]
    ELSE Append(m, [name |-> k, value |-> v])

\* the elements of a vector
Elems(seq) == {seq[i] : i \in 1..Len(seq)}

\* Vec::contains
Contains(seq, x) == \E i \in 1..Len(seq) : seq[i] = x

\* ------------------------------------------------------------------------
\* Schemas
\* ------------------------------------------------------------------------
\* OpenAPISchema::default(); format stands for the fields that the resolver
\* only ever copies
DefaultSchema ==
    [schema_type |-> None, format |-> None, title |-> None,
     description |-> None, example |-> None,
     required |-> <<>>, properties |-> <<>>,
     all_of |-> <<>>, one_of |-> <<>>, any_of |-> <<>>,
     one_of_variants |-> None, any_of_variants |-> None,
     discriminator |-> None, items |-> None]

SchemaOf(s) == [kind |-> "Schema", schema |-> s]

ReferenceTo(r) == [kind |-> "Reference", reference |-> r]

\* ------------------------------------------------------------------------
\* Results and errors
\* ------------------------------------------------------------------------
Ok(v) == [kind |-> "Ok", value |-> v]

Err(e) == [kind |-> "Err", error |-> e]

\* unwrap() on a missing document
Panic == [kind |-> "Panic"]

NoResult == [kind |-> "None"]

\* a repeated pointer reported with the error of a failed lookup
circular_reference_as_not_found(r) ==
    [kind |-> "ReferenceNotFound", reference |-> r, path |-> r]

circular_reference(r) == [kind |-> "CircularReference", reference |-> r]

external_reference_not_supported(r, p) ==
    [kind |-> "ExternalReferenceNotSupported", reference |-> r, path |-> p]

reference_not_found(r, p) ==
    [kind |-> "ReferenceNotFound", reference |-> r, path |-> p]

unsupported_openapi_version(v, p) ==
    [kind |-> "UnsupportedOpenAPIVersion", version |-> v, path |-> p]

missing_field(f, p) == [kind |-> "MissingField", field |-> f, path |-> p]

file_not_found == [kind |-> "FileNotFound"]

invalid_json == [kind |-> "InvalidJson"]

invalid_yaml == [kind |-> "InvalidYaml"]

unsupported_format(ext) == [kind |-> "UnsupportedFormat", format |-> ext]

\* ------------------------------------------------------------------------
\* Reference resolver
\* ------------------------------------------------------------------------
InternalPrefix == <<"#", "/">>

\* the test of line 208 on the split remainder
SupportedShape(parts) ==
    /\ Len(parts) >= 3
    /\ parts[1] = Str("components")
    /\ parts[2] = Str("schemas")

\* lines 211-221: the outcome of the lookup of parts[3] in components.schemas
Looked(r, seen, parts, found) ==
    IF IsSome(found)
    THEN IF Unwrap(found).kind = "Schema"
         THEN [out |-> Ok(Unwrap(found).schema),
               visited |-> seen, looked |-> <<parts[3]>>]
         ELSE [out |-> [kind |-> "Recurse",
                        reference |-> Unwrap(found).reference],
               visited |-> seen, looked |-> <<parts[3]>>]
    ELSE [out |-> Err(reference_not_found(r, Join(parts))),
          visited |-> seen, looked |-> <<parts[3]>>]

\* lines 206-222: the split remainder of an internal pointer
Internal(doc, r, seen, parts) ==
    IF SupportedShape(parts) /\ IsSome(Unwrap(doc).components)
    THEN Looked(r, seen, parts,
                Get(Unwrap(Unwrap(doc).components).schemas, parts[3]))
    ELSE [out |-> Err(reference_not_found(r, Join(parts))),
          visited |-> seen, looked |-> <<>>]

\* One activation of resolve_reference_with_visited, up to its return or its
\* recursive call.  looked holds the name given to the components.schemas.get
\* of line 211, if the activation reaches it.
ResolveReferenceFrame(doc, r, seen) ==
    IF r \in seen
    THEN [out |-> Err(circular_reference(r)), visited |-> seen, looked |-> <<>>]
    ELSE IF IsNone(doc)
    THEN [out |-> Panic, visited |-> seen \cup {r}, looked |-> <<>>]
    ELSE IF ~StartsWith(r, InternalPrefix)
    THEN [out |-> Err(external_reference_not_supported(r, Str("$ref"))),
          visited |-> seen \cup {r}, looked |-> <<>>]
    ELSE Internal(doc, r, seen \cup {r}, Split(SubSeq(r, 3, Len(r))))

RECURSIVE resolve_reference_with_visited(_, _, _)

\* line 215: the recursive call on the pointer of a Reference entry
Follow(doc, f) ==
    IF f.out.kind = "Recurse"
    THEN resolve_reference_with_visited(doc, f.out.reference, f.visited)
    ELSE f.out

\* resolve_reference_with_visited as a function
resolve_reference_with_visited(doc, r, seen) ==
    Follow(doc, ResolveReferenceFrame(doc, r, seen))

\* resolve_reference: a fresh visited set on every call
resolve_reference(doc, r) == resolve_reference_with_visited(doc, r, {})

\* ------------------------------------------------------------------------
\* Composition resolver
\* ------------------------------------------------------------------------
\* Depth of nested resolve_all_of_schema activations the stack can hold; the
\* code itself has no limit, a deeper recursion ends the process.
MaxDepth == 5

StackOverflow == [kind |-> "StackOverflow"]

\* a name that is already present keeps its earlier definition
RECURSIVE MergePropertiesKeepFirst(_, _)
MergePropertiesKeepFirst(acc, props) ==
    IF Len(props) = 0 THEN acc
    ELSE MergePropertiesKeepFirst(
             IF ContainsKey(acc, props[1].name) THEN acc
             ELSE Insert(acc, props[1].name, props[1].value),
             Tail(props))

\* the loop of lines 330-334
RECURSIVE MergeProperties(_, _)
MergeProperties(acc, props) ==
    IF Len(props) = 0 THEN acc
    ELSE MergeProperties(Insert(acc, props[1].name, props[1].value),
                         Tail(props))

\* every name is appended, present or not
MergeRequiredAppendAll(acc, req) == acc \o req

\* the loop of lines 337-341
RECURSIVE MergeRequired(_, _)
MergeRequired(acc, req) ==
    IF Len(req) = 0 THEN acc
    ELSE MergeRequired(IF Contains(acc, req[1]) THEN acc
                       ELSE Append(acc, req[1]),
                       Tail(req))

\* a later member's value replaces the one already set
FillAlways(cur, new) == IF IsSome(new) THEN new ELSE cur

\* lines 344-352: fill a field only if it is still unset
FillIfUnset(cur, new) == IF IsNone(cur) /\ IsSome(new) THEN new ELSE cur

\* lines 329-352: merge one resolved member into the result
MergeMember(resolved, sub) ==
    [resolved EXCEPT
        !.properties = MergeProperties(resolved.properties, sub.properties),
        !.required = MergeRequired(resolved.required, sub.required),
        !.title = FillIfUnset(resolved.title, sub.title),
        !.description = FillIfUnset(resolved.description, sub.description),
        !.example = FillIfUnset(resolved.example, sub.example)]

\* lines 292-303: the result before any member is merged
AllOfSeed(base_schema) ==
    [base_schema EXCEPT !.schema_type = Some(Str("object")),
                        !.properties = <<>>,
                        !.required = <<>>,
                        !.all_of = <<>>]

RECURSIVE resolve_all_of_schema(_, _, _, _)
RECURSIVE AllOfMember(_, _, _)
RECURSIVE AllOfLoop(_, _, _, _)

\* a member is merged as it is declared, its own allOf left aside
NestedNotMerged(doc, schema, depth) == Ok(schema)

\* lines 310-315 and 321-325: a nested allOf of a member is merged first
Nested(doc, schema, depth) ==
    IF Len(schema.all_of) > 0
    THEN resolve_all_of_schema(doc, schema, schema.all_of, depth + 1)
    ELSE Ok(schema)

\* lines 318-319: the ? on the outcome of resolve_reference
NestedIfResolved(doc, referenced, depth) ==
    IF referenced.kind # "Ok" THEN referenced
    ELSE Nested(doc, referenced.value, depth)

\* lines 307-327: the schema a member stands for
AllOfMember(doc, sub_schema_or_ref, depth) ==
    IF sub_schema_or_ref.kind = "Schema"
    THEN Nested(doc, sub_schema_or_ref.schema, depth)
    ELSE NestedIfResolved(doc,
             resolve_reference(doc, sub_schema_or_ref.reference), depth)

\* lines 329-352: the member is merged and the loop goes on
MergeAndGoOn(doc, resolved, all_of, depth, sub) ==
    IF sub.kind # "Ok" THEN sub
    ELSE AllOfLoop(doc, MergeMember(resolved, sub.value), Tail(all_of), depth)

\* lines 306-353: the loop over the members, from member i on
AllOfLoop(doc, resolved, all_of, depth) ==
    IF Len(all_of) = 0 THEN Ok(resolved)
    ELSE MergeAndGoOn(doc, resolved, all_of, depth,
                      AllOfMember(doc, all_of[1], depth))

resolve_all_of_schema(doc, base_schema, all_of, depth) ==
    IF depth > MaxDepth THEN StackOverflow
    ELSE AllOfLoop(doc, AllOfSeed(base_schema), all_of, depth)

\* lines 363-374
OneOfSeed(base_schema) ==
    [base_schema EXCEPT !.schema_type = Some(Str("object")),
                        !.properties = <<>>,
                        !.required = <<>>,
                        !.one_of = <<>>]

\* lines 427-438
AnyOfSeed(base_schema) ==
    [base_schema EXCEPT !.schema_type = Some(Str("object")),
                        !.properties = <<>>,
                        !.required = <<>>,
                        !.any_of = <<>>]

\* the generated name counts from zero
VariantNameFromZero(schema, prefix, position) ==
    IF IsSome(schema.title) THEN Unwrap(schema.title)
    ELSE <<prefix, ToString(position - 1)>>

\* format!("{}{}", prefix, index + 1) with a zero-based index
VariantName(schema, prefix, position) ==
    IF IsSome(schema.title) THEN Unwrap(schema.title)
    ELSE <<prefix, ToString(position)>>

\* lines 379-384 and 443-448: a variant is the inline schema or the schema
\* its reference resolves to
VariantSchema(doc, variant_ref) ==
    IF variant_ref.kind = "Schema" THEN Ok(variant_ref.schema)
    ELSE resolve_reference(doc, variant_ref.reference)

RECURSIVE CollectVariants(_, _, _, _, _)

\* lines 386-391 and 450-455: the pair of the variant, if it resolved
PushVariant(doc, members, prefix, position, acc, v) ==
    IF v.kind # "Ok" THEN v
    ELSE CollectVariants(doc, members, prefix, position + 1,
             Append(acc, <<VariantName(v.value, prefix, position), v.value>>))

\* lines 377-392 and 441-456: the (name, schema) pairs, from position on
CollectVariants(doc, members, prefix, position, acc) ==
    IF position > Len(members) THEN Ok(acc)
    ELSE PushVariant(doc, members, prefix, position, acc,
                     VariantSchema(doc, members[position]))

\* lines 398-417
InjectDiscriminator(resolved, base_schema) ==
    IF IsNone(base_schema.discriminator) THEN resolved
    ELSE LET d == Unwrap(base_schema.discriminator).property_name
             stringSchema ==
                 SchemaOf([DefaultSchema EXCEPT
                              !.schema_type = Some(Str("string"))])
         IN [resolved EXCEPT
               !.properties = IF ContainsKey(resolved.properties, d)
                              THEN resolved.properties
                              ELSE Insert(resolved.properties, d, stringSchema),
               !.required = IF Contains(resolved.required, d)
                            THEN resolved.required
                            ELSE Append(resolved.required, d)]

\* lines 394-419: the result, given the variants
OneOfResult(base_schema, variants) ==
    IF variants.kind # "Ok" THEN variants
    ELSE Ok(InjectDiscriminator(
               [OneOfSeed(base_schema) EXCEPT
                   !.one_of_variants = Some(variants.value)],
               base_schema))

resolve_one_of_schema(doc, base_schema, one_of) ==
    OneOfResult(base_schema, CollectVariants(doc, one_of, "Variant", 1, <<>>))

RECURSIVE AnyOfScan(_, _, _, _)

\* the required names of a variant replace those collected so far
ScanVariantLastRequired(doc, any_of, all_properties, all_required, v) ==
    IF v.kind # "Ok" THEN v
    ELSE AnyOfScan(doc, Tail(any_of),
                   MergeProperties(all_properties, v.value.properties),
                   Elems(v.value.required))

\* lines 474-482: the properties and required names of one variant
ScanVariant(doc, any_of, all_properties, all_required, v) ==
    IF v.kind # "Ok" THEN v
    ELSE AnyOfScan(doc, Tail(any_of),
                   MergeProperties(all_properties, v.value.properties),
                   all_required \cup Elems(v.value.required))

\* lines 466-483: the scan of the variants for properties and required
\* names; required is a HashSet, here the set of its elements
AnyOfScan(doc, any_of, all_properties, all_required) ==
    IF Len(any_of) = 0
    THEN Ok([properties |-> all_properties, required |-> all_required])
    ELSE ScanVariant(doc, any_of, all_properties, all_required,
                     VariantSchema(doc, any_of[1]))

\* HashSet::into_iter().collect(): the elements in the iteration order of
\* the hash set, which differs from one set to the next; hashOrder lists the
\* names in the order this set happens to yield them
RECURSIVE IntoIter(_, _)
IntoIter(set, hashOrder) ==
    IF Len(hashOrder) = 0 THEN <<>>
    ELSE (IF hashOrder[1] \in set THEN <<hashOrder[1]>> ELSE <<>>)
         \o IntoIter(set, Tail(hashOrder))

\* lines 485-489: the result, given the variants and the scan
AnyOfScanned(base_schema, hashOrder, variants, scan) ==
    IF scan.kind # "Ok" THEN scan
    ELSE Ok([AnyOfSeed(base_schema) EXCEPT
                !.any_of_variants = Some(variants.value),
                !.properties = scan.value.properties,
                !.required = IntoIter(scan.value.required, hashOrder)])

\* lines 458-483: the second pass over the variants
AnyOfResult(doc, base_schema, any_of, hashOrder, variants) ==
    IF variants.kind # "Ok" THEN variants
    ELSE AnyOfScanned(base_schema, hashOrder, variants,
                      AnyOfScan(doc, any_of, <<>>, {}))

resolve_any_of_schema(doc, base_schema, any_of, hashOrder) ==
    AnyOfResult(doc, base_schema, any_of, hashOrder,
                CollectVariants(doc, any_of, "Option", 1, <<>>))

\* a schema without composition keywords goes through the allOf merge
DispatchAlwaysMerge(doc, schema, hashOrder) ==
    IF Len(schema.all_of) > 0
    THEN resolve_all_of_schema(doc, schema, schema.all_of, 1)
    ELSE IF Len(schema.one_of) > 0
    THEN resolve_one_of_schema(doc, schema, schema.one_of)
    ELSE IF Len(schema.any_of) > 0
    THEN resolve_any_of_schema(doc, schema, schema.any_of, hashOrder)
    ELSE resolve_all_of_schema(doc, schema, <<>>, 1)

\* the properties that refer to the schema they are in
OwnName(doc, schema) ==
    {i \in 1..Len(schema.properties) :
        /\ schema.properties[i].value.kind = "Reference"
        /\ resolve_reference(doc, schema.properties[i].value.reference)
              = Ok(schema)}

\* a reference in a property is followed, and one that leads back to the
\* schema is an error
DispatchFollowingProperties(doc, schema, hashOrder) ==
    IF OwnName(doc, schema) # {}
    THEN Err(circular_reference(
             schema.properties[CHOOSE i \in OwnName(doc, schema) : TRUE]
                 .value.reference))
    ELSE IF Len(schema.all_of) > 0
    THEN resolve_all_of_schema(doc, schema, schema.all_of, 1)
    ELSE IF Len(schema.one_of) > 0
    THEN resolve_one_of_schema(doc, schema, schema.one_of)
    ELSE IF Len(schema.any_of) > 0
    THEN resolve_any_of_schema(doc, schema, schema.any_of, hashOrder)
    ELSE Ok(schema)

\* oneOf is tested before allOf
DispatchOneOfFirst(doc, schema, hashOrder) ==
    IF Len(schema.one_of) > 0
    THEN resolve_one_of_schema(doc, schema, schema.one_of)
    ELSE IF Len(schema.all_of) > 0
    THEN resolve_all_of_schema(doc, schema, schema.all_of, 1)
    ELSE IF Len(schema.any_of) > 0
    THEN resolve_any_of_schema(doc, schema, schema.any_of, hashOrder)
    ELSE Ok(schema)

\* lines 261-269 and 274-282: the dispatch on the composition keywords
Dispatch(doc, schema, hashOrder) ==
    IF Len(schema.all_of) > 0
    THEN resolve_all_of_schema(doc, schema, schema.all_of, 1)
    ELSE IF Len(schema.one_of) > 0
    THEN resolve_one_of_schema(doc, schema, schema.one_of)
    ELSE IF Len(schema.any_of) > 0
    THEN resolve_any_of_schema(doc, schema, schema.any_of, hashOrder)
    ELSE Ok(schema)

\* lines 272-273: the ? on the outcome of resolve_reference
DispatchResolved(doc, resolved, hashOrder) ==
    IF resolved.kind # "Ok" THEN resolved
    ELSE Dispatch(doc, resolved.value, hashOrder)

resolve_schema(doc, schema_or_ref, hashOrder) ==
    IF schema_or_ref.kind = "Schema"
    THEN Dispatch(doc, schema_or_ref.schema, hashOrder)
    ELSE DispatchResolved(doc, resolve_reference(doc, schema_or_ref.reference),
                          hashOrder)

\* ------------------------------------------------------------------------
\* Documents and inputs
\* ------------------------------------------------------------------------
A == Str("A")

B == Str("B")

C == Str("C")

Ghost == Str("Ghost")

\* "#/components/schemas/<name>"
Ptr(name) ==
    InternalPrefix \o Str("components") \o <<"/">> \o Str("schemas")
                   \o <<"/">> \o name

\* "#/components/schemas/A/x": a further segment after the name
TrailingPtr == Ptr(A) \o <<"/", "x">>

\* "other.yaml#/components/schemas/A"
ExternalPtr == Str("other.yaml") \o Ptr(A)

\* pointers given to resolve_reference and resolve_schema
Pointers ==
    {Ptr(A), Ptr(B), Ptr(C), Ptr(Ghost), TrailingPtr, ExternalPtr,
     <<>>, A, <<"#">>, InternalPrefix,
     InternalPrefix \o Str("components") \o <<"/">> \o Str("schemas"),
     InternalPrefix \o Str("components") \o <<"/">> \o Str("schemas") \o <<"/">>,
     InternalPrefix \o Str("components") \o <<"/">> \o Str("parameters")
                    \o <<"/">> \o A,
     InternalPrefix \o A}

Typed(t) == SchemaOf([DefaultSchema EXCEPT !.schema_type = Some(Str(t))])

Prop(n, t) == [name |-> Str(n), value |-> Typed(t)]

L0 == DefaultSchema

L1 == [DefaultSchema EXCEPT !.title = Some(Str("T1")),
                            !.example = Some(Str("E1")),
                            !.properties = <<Prop("x", "string")>>,
                            !.required = <<Str("x")>>]

L2 == [DefaultSchema EXCEPT !.title = Some(Str("T2")),
                            !.description = Some(Str("D2")),
                            !.properties = <<Prop("x", "integer"),
                                             Prop("y", "string")>>,
                            !.required = <<Str("y"), Str("x")>>]

L3 == [DefaultSchema EXCEPT !.description = Some(Str("D3")),
                            !.example = Some(Str("E3")),
                            !.properties = <<Prop("y", "integer")>>,
                            !.required = <<Str("y"), Str("y")>>]

L4 == [DefaultSchema EXCEPT !.example = Some(Str("E4")),
                            !.format = Some(Str("F4")),
                            !.properties = <<Prop("y", "string"),
                                             Prop("x", "string")>>]

\* a member that is itself an allOf, with properties of its own
N1 == [DefaultSchema EXCEPT !.properties = <<Prop("y", "boolean")>>,
                            !.required = <<Str("x")>>,
                            !.all_of = <<SchemaOf(L1), SchemaOf(L3)>>]

Leaves == {L0, L1, L2, L3, L4}

\* the schema stored under A in the documents with compositions
SchemaA == [DefaultSchema EXCEPT !.schema_type = Some(Str("object")),
                                 !.title = Some(Str("TA")),
                                 !.properties = <<Prop("y", "number"),
                                                  Prop("x", "number")>>,
                                 !.required = <<Str("x")>>]

\* ---- components tables that hold chains of references ----
ChainEntries ==
    {SchemaOf(L1), ReferenceTo(Ptr(A)), ReferenceTo(Ptr(B)),
     ReferenceTo(Ptr(C)), ReferenceTo(Ptr(Ghost)), ReferenceTo(TrailingPtr),
     ReferenceTo(ExternalPtr)}

Entry(name, e) == IF e = None THEN <<>> ELSE <<[name |-> name, value |-> Unwrap(e)]>>

OptionOf(S) == {None} \cup {Some(e) : e \in S}

ChainTables ==
    {Entry(A, a) \o Entry(B, b) \o Entry(C, c) :
        a \in OptionOf(ChainEntries), b \in OptionOf(ChainEntries),
        c \in OptionOf({SchemaOf(L1), ReferenceTo(Ptr(A)), ReferenceTo(Ptr(B)),
                        ReferenceTo(Ptr(C))})}

\* ---- inputs of resolve_schema ----
\* longest list of members in a composition keyword
MaxMembers == 2

SeqsUpTo(S, n) == UNION {[1..k -> S] : k \in 0..n}

Members ==
    {SchemaOf(l) : l \in Leaves} \cup
    {SchemaOf(N1), ReferenceTo(Ptr(A)), ReferenceTo(Ptr(B)),
     ReferenceTo(Ptr(Ghost))}

\* the lists given to the keywords that are not the one under study
FewLists1 == <<SchemaOf(L2)>>

FewLists2 == <<SchemaOf(L4), ReferenceTo(Ptr(A))>>

Discriminator(n) == [property_name |-> Str(n)]

\* the combining schema without its composition keywords
Bases ==
    {DefaultSchema,
     [DefaultSchema EXCEPT !.title = Some(Str("TB")),
                           !.format = Some(Str("FB")),
                           !.properties = <<Prop("w", "string")>>,
                           !.required = <<Str("w")>>],
     [DefaultSchema EXCEPT !.description = Some(Str("DB")),
                           !.example = Some(Str("EB")),
                           !.discriminator = Some(Discriminator("x"))],
     [DefaultSchema EXCEPT !.properties = <<Prop("w", "integer")>>,
                           !.required = <<Str("w")>>,
                           !.discriminator = Some(Discriminator("w"))]}

\* allOf over every list of members, the other two keywords absent or
\* present
AllOfCompositions ==
    {[b EXCEPT !.all_of = ao, !.one_of = k[1], !.any_of = k[2]] :
        b \in Bases, ao \in SeqsUpTo(Members, MaxMembers),
        k \in {<<<<>>, <<>>>>, <<FewLists1, <<>>>>, <<<<>>, FewLists2>>,
               <<FewLists1, FewLists2>>}}

\* oneOf, and anyOf, over every list of members, without allOf
VariantCompositions ==
    {[b EXCEPT !.one_of = l] : b \in Bases, l \in SeqsUpTo(Members, MaxMembers)}
    \cup
    {[b EXCEPT !.any_of = l] : b \in Bases, l \in SeqsUpTo(Members, MaxMembers)}

\* a member with properties of its own and with variants that declare z
V1 == [DefaultSchema EXCEPT
          !.properties = <<Prop("x", "boolean")>>,
          !.one_of = <<Typed("string"),
                       SchemaOf([DefaultSchema EXCEPT
                                    !.properties = <<Prop("z", "string")>>,
                                    !.required = <<Str("z")>>])>>,
          !.any_of = <<SchemaOf([DefaultSchema EXCEPT
                                    !.properties = <<Prop("z", "integer")>>])>>]

\* an allOf whose members are an allOf, a reference and a schema with
\* variants
N2 == [DefaultSchema EXCEPT
          !.required = <<Str("w")>>,
          !.all_of = <<SchemaOf(N1), ReferenceTo(Ptr(B)), SchemaOf(V1)>>]

\* allOf nested three deep
DeepCompositions ==
    {[DefaultSchema EXCEPT !.all_of = <<SchemaOf(N2)>>],
     [DefaultSchema EXCEPT !.all_of = <<SchemaOf(L4), SchemaOf(N2)>>],
     [DefaultSchema EXCEPT !.all_of = <<SchemaOf(V1)>>]}

Compositions ==
    AllOfCompositions \cup VariantCompositions \cup DeepCompositions

\* ---- components tables that hold compositions ----
StoredAllOf == <<SchemaOf(L3), ReferenceTo(Ptr(A))>>

StoredCompositions ==
    {[DefaultSchema EXCEPT !.all_of = StoredAllOf],
     [DefaultSchema EXCEPT !.title = Some(Str("TS")),
                           !.all_of = StoredAllOf,
                           !.one_of = FewLists1,
                           !.any_of = FewLists2],
     [DefaultSchema EXCEPT !.one_of = FewLists1,
                           !.any_of = FewLists2,
                           !.discriminator = Some(Discriminator("x"))],
     [DefaultSchema EXCEPT !.one_of = FewLists2,
                           !.properties = <<Prop("w", "string")>>],
     [DefaultSchema EXCEPT !.any_of = FewLists2,
                           !.description = Some(Str("DS"))],
     [DefaultSchema EXCEPT !.any_of = <<SchemaOf(L2), SchemaOf(L3)>>]}

\* an allOf over its own name
SelfAllOf == [DefaultSchema EXCEPT !.all_of = <<ReferenceTo(Ptr(C))>>]

\* an allOf over a schema and the name of an entry that is an allOf over
\* this one
MutualAllOf(other) ==
    [DefaultSchema EXCEPT !.all_of = <<SchemaOf(L1), ReferenceTo(Ptr(other))>>]

\* A is plain, B is a composition, C refers to B or is an allOf over itself;
\* or A and B are allOf over each other
CompositionTables ==
    {<<[name |-> A, value |-> SchemaOf(SchemaA)],
       [name |-> B, value |-> SchemaOf(b)],
       [name |-> C, value |-> ReferenceTo(Ptr(B))]>> :
        b \in StoredCompositions}
    \cup
    {<<[name |-> C, value |-> SchemaOf(SelfAllOf)],
       [name |-> B, value |-> SchemaOf(L2)],
       [name |-> A, value |-> ReferenceTo(Ptr(B))]>>,
     <<[name |-> C, value |-> SchemaOf(L2)],
       [name |-> A, value |-> SchemaOf(MutualAllOf(B))],
       [name |-> B, value |-> SchemaOf(MutualAllOf(A))]>>}

\* ---- components tables with references inside properties and items ----
ArrayOf(items) ==
    SchemaOf([DefaultSchema EXCEPT !.schema_type = Some(Str("array")),
                                   !.items = Some(items)])

\* a schema whose properties refer to its own name, A
Node == [DefaultSchema EXCEPT
            !.schema_type = Some(Str("object")),
            !.properties = <<Prop("id", "string"),
                             [name |-> Str("children"),
                              value |-> ArrayOf(ReferenceTo(Ptr(A)))],
                             [name |-> Str("parent"),
                              value |-> ReferenceTo(Ptr(A))]>>]

\* an array of itself, B, with a property that refers to A and one that
\* refers to no entry
Nodes == [DefaultSchema EXCEPT
             !.schema_type = Some(Str("array")),
             !.items = Some(ReferenceTo(Ptr(B))),
             !.properties = <<[name |-> Str("first"),
                               value |-> ReferenceTo(Ptr(A))],
                              [name |-> Str("ghost"),
                               value |-> ReferenceTo(Ptr(Ghost))]>>,
             !.required = <<Str("w")>>]

\* an allOf over both
Tree == [DefaultSchema EXCEPT
            !.all_of = <<ReferenceTo(Ptr(A)), ReferenceTo(Ptr(B)),
                         SchemaOf(Nodes)>>]

RecursiveTables ==
    {<<[name |-> A, value |-> SchemaOf(Node)]>>,
     <<[name |-> A, value |-> SchemaOf(Node)],
       [name |-> B, value |-> SchemaOf(Nodes)],
       [name |-> C, value |-> SchemaOf(Tree)]>>}

Document(version, title, components) ==
    [openapi |-> version,
     info |-> [title |-> title, version |-> Str("1.0.0")],
     paths |-> <<>>,
     components |-> components,
     tags |-> <<>>]

V3 == <<"3", ".", "0">>

ChainDocuments ==
    {Document(V3, Str("API"), Some([schemas |-> t])) : t \in ChainTables}
    \cup {Document(V3, Str("API"), None)}

CompositionDocuments ==
    {Document(V3, Str("API"), Some([schemas |-> t])) : t \in CompositionTables}

RecursiveDocuments ==
    {Document(V3, Str("API"), Some([schemas |-> t])) : t \in RecursiveTables}

\* ---- documents with paths and tags ----
\* tag names are spelled character by character
TagA == <<"a">>

TagB == <<"b">>

TagAB == <<"a", "b">>

UpperB == <<"B">>

DefaultTag == <<"D", "e", "f", "a", "u", "l", "t">>

TagNames == {TagA, TagB, TagAB, UpperB, DefaultTag}

\* response is the schema of the JSON body of the success response, when the
\* operation declares one
Operation(tags) == [tags |-> tags, response |-> None]

Returning(operation, schema_or_ref) ==
    [operation EXCEPT !.response = Some(schema_or_ref)]

Tag(name) == [name |-> name]

\* the eight operations of a path item, each an Option
PathItem(get, put, post, delete, options, head, patch, trace) ==
    [get |-> get, put |-> put, post |-> post, delete |-> delete,
     options |-> options, head |-> head, patch |-> patch, trace |-> trace]

TagLists == {<<>>, <<TagA>>, <<TagB, TagA>>, <<TagA, TagA>>, <<DefaultTag>>}

Operations == {Operation(t) : t \in TagLists}

\* path items for "/p": get and post, each absent or present
FirstItems ==
    {PathItem(g, None, p, None, None, None, None, None) :
        g \in OptionOf(Operations), p \in OptionOf(Operations)}

\* a path item with all eight operations
EveryMethod ==
    PathItem(Some(Operation(<<UpperB>>)), Some(Operation(<<>>)),
             Some(Operation(<<TagA>>)), Some(Operation(<<TagB>>)),
             Some(Operation(<<TagAB>>)), Some(Operation(<<TagA, TagB>>)),
             Some(Operation(<<>>)), Some(Operation(<<TagB>>)))

\* path items for "/q"
SecondItems ==
    {EveryMethod,
     PathItem(Some(Operation(<<TagAB>>)), None, None, None, None, None, None, None)}

PathTables ==
    {<<[name |-> <<"/", "p">>, value |-> i]>> \o Entry(<<"/", "q">>, j) :
        i \in FirstItems, j \in OptionOf(SecondItems)}

GlobalTags ==
    {<<>>, <<Tag(TagB)>>, <<Tag(DefaultTag), Tag(TagA)>>, <<Tag(TagA), Tag(TagA)>>}

\* documents that validate_spec rejects
InvalidDocuments ==
    {Document(<<"2", ".", "0">>, Str("API"), None),
     Document(<<"3">>, Str("API"), None),
     Document(V3, <<>>, None),
     [Document(V3, Str("API"), None) EXCEPT !.info.version = <<>>],
     Document(<<>>, Str("API"), None),
     Document(<<"3", "0", ".", "0">>, Str("API"), None),
     Document(<<"2", ".", "0">>, <<>>, None),
     [Document(V3, <<>>, None) EXCEPT !.info.version = <<>>],
     [Document(<<"3">>, <<>>, None) EXCEPT !.info.version = <<>>]}

\* documents of other versions that validate_spec accepts
VersionDocuments ==
    {Document(<<"3", ".">>, Str("API"), None),
     Document(<<"3", ".", "1", ".", "0">>, Str("API"), None)}

TaggedDocuments ==
    {[Document(V3, Str("API"), None) EXCEPT !.paths = p, !.tags = t] :
        p \in PathTables, t \in GlobalTags}

Documents ==
    ChainDocuments \cup CompositionDocuments \cup TaggedDocuments
    \cup InvalidDocuments \cup VersionDocuments \cup RecursiveDocuments

File(readable, extension, wellformed, doc) ==
    [readable |-> readable, extension |-> extension,
     wellformed |-> wellformed, doc |-> doc]

Files ==
    {File(TRUE, "json", TRUE, d) : d \in Documents} \cup
    {File(r, e, w, Document(V3, Str("API"), None)) :
        r \in BOOLEAN, e \in {"json", "yaml", "yml", "txt", ""},
        w \in BOOLEAN}

\* the iteration orders a HashSet of required names can have
Orderings(S) ==
    {f \in [1..Cardinality(S) -> S] :
        \A i, j \in 1..Cardinality(S) : i # j => f[i] # f[j]}

HashOrders == Orderings({Str("x"), Str("y"), Str("w")})

\* the iteration orders a HashSet of tag names can have
TagOrders == Orderings(TagNames)

\* ------------------------------------------------------------------------
\* The parser
\* ------------------------------------------------------------------------
\* a document without paths is rejected as well
validate_spec_requires_paths(doc) ==
    IF ~StartsWith(doc.openapi, <<"3", ".">>)
    THEN Err(unsupported_openapi_version(doc.openapi, Str("openapi")))
    ELSE IF doc.info.title = <<>>
    THEN Err(missing_field(Str("title"), Str("info.title")))
    ELSE IF doc.info.version = <<>>
    THEN Err(missing_field(Str("version"), Str("info.version")))
    ELSE IF Len(doc.paths) = 0
    THEN Err(missing_field(Str("paths"), Str("paths")))
    ELSE Ok(doc)

\* lines 133-152
validate_spec(doc) ==
    IF ~StartsWith(doc.openapi, <<"3", ".">>)
    THEN Err(unsupported_openapi_version(doc.openapi, Str("openapi")))
    ELSE IF doc.info.title = <<>>
    THEN Err(missing_field(Str("title"), Str("info.title")))
    ELSE IF doc.info.version = <<>>
    THEN Err(missing_field(Str("version"), Str("info.version")))
    ELSE Ok(doc)

\* lines 94-116: the outcome of parse_file; file.doc is what the text of a
\* well-formed file deserializes to
parse_file(file) ==
    IF ~file.readable THEN Err(file_not_found)
    ELSE IF file.extension = "json"
    THEN (IF file.wellformed THEN validate_spec(file.doc) ELSE Err(invalid_json))
    ELSE IF file.extension \in {"yaml", "yml"}
    THEN (IF file.wellformed THEN validate_spec(file.doc) ELSE Err(invalid_yaml))
    ELSE Err(unsupported_format(file.extension))

\* the value of a function that returns no Result
Value(v) == [kind |-> "Value", value |-> v]

\* the order in which both functions go through the operations of a path
Methods == <<"get", "post", "put", "delete", "patch", "head", "options", "trace">>

RECURSIVE Flatten(_)
Flatten(seqs) == IF Len(seqs) = 0 THEN <<>> ELSE seqs[1] \o Flatten(Tail(seqs))

\* lines 590-594: the tags of the operations of a path item, in order
PathItemTags(path_item) ==
    Flatten([m \in 1..Len(Methods) |->
                IF IsSome(path_item[Methods[m]])
                THEN Unwrap(path_item[Methods[m]]).tags
                ELSE <<>>])

\* the bytes of the characters tag names are written with
Byte ==
    ("B" :> 66) @@ ("D" :> 68) @@ ("a" :> 97) @@ ("b" :> 98) @@ ("e" :> 101)
    @@ ("f" :> 102) @@ ("l" :> 108) @@ ("t" :> 116) @@ ("u" :> 117)

\* Ord for String: byte by byte, a proper prefix first
RECURSIVE Less(_, _)
Less(a, b) ==
    IF Len(b) = 0 THEN FALSE
    ELSE IF Len(a) = 0 THEN TRUE
    ELSE IF Byte[a[1]] # Byte[b[1]] THEN Byte[a[1]] < Byte[b[1]]
    ELSE Less(Tail(a), Tail(b))

RECURSIVE SortedInsert(_, _)
SortedInsert(sorted, x) ==
    IF Len(sorted) = 0 THEN <<x>>
    ELSE IF Less(x, sorted[1]) THEN <<x>> \o sorted
    ELSE <<sorted[1]>> \o SortedInsert(Tail(sorted), x)

\* the vector is left as the hash set yields it
SortKeepsOrder(vec) == vec

\* slice::sort, a stable sort
RECURSIVE Sort(_)
Sort(vec) ==
    IF Len(vec) = 0 THEN <<>>
    ELSE SortedInsert(Sort(SubSeq(vec, 1, Len(vec) - 1)), vec[Len(vec)])

\* lines 568-600
get_all_tags(doc, hashOrder) ==
    IF IsNone(doc) THEN Panic
    ELSE LET d == Unwrap(doc)
             global == {d.tags[i].name : i \in 1..Len(d.tags)}
             fromOperations ==
                 UNION {Elems(PathItemTags(d.paths[i].value)) :
                           i \in 1..Len(d.paths)}
         IN Value(Sort(IntoIter(global \cup fromOperations, hashOrder)))

\* an operation without tags is filed under the empty name
OperationPushesUnderNoName(path_str, method, operation) ==
    LET tags == IF Len(operation.tags) = 0 THEN <<<<>>>>
                ELSE operation.tags
    IN [i \in 1..Len(tags) |->
           [tag |-> tags[i], entry |-> <<path_str, method, operation>>]]

\* lines 646-658: what one operation pushes, and under which key
OperationPushes(path_str, method, operation) ==
    LET tags == IF Len(operation.tags) = 0 THEN <<DefaultTag>>
                ELSE operation.tags
    IN [i \in 1..Len(tags) |->
           [tag |-> tags[i], entry |-> <<path_str, method, operation>>]]

\* lines 633-660: the pushes for one path
PathPushes(path_str, path_item) ==
    Flatten([m \in 1..Len(Methods) |->
                IF IsSome(path_item[Methods[m]])
                THEN OperationPushes(path_str, Methods[m],
                                     Unwrap(path_item[Methods[m]]))
                ELSE <<>>])

\* HashMap::entry(tag).or_insert_with(Vec::new).push(entry), for every push
\* in order: the map from each tag pushed under to its entries
Grouped(pushes) ==
    [t \in {pushes[i].tag : i \in 1..Len(pushes)} |->
        LET under == {i \in 1..Len(pushes) : pushes[i].tag = t}
            nth(n) == CHOOSE i \in under :
                         Cardinality({j \in under : j < i}) = n - 1
        IN [n \in 1..Cardinality(under) |-> pushes[nth(n)].entry]]

\* without a document the call returns an empty map
get_operations_by_tag_or_empty(doc) ==
    IF IsNone(doc) THEN Ok(Grouped(<<>>))
    ELSE LET d == Unwrap(doc) IN
         Ok(Grouped(Flatten([i \in 1..Len(d.paths) |->
                                PathPushes(d.paths[i].name, d.paths[i].value)])))

\* lines 628-664
get_operations_by_tag(doc) ==
    IF IsNone(doc) THEN Panic
    ELSE LET d == Unwrap(doc) IN
         Ok(Grouped(Flatten([i \in 1..Len(d.paths) |->
                                PathPushes(d.paths[i].name, d.paths[i].value)])))

\* lines 667-669
get_spec(doc) ==
    IF IsNone(doc) THEN Panic ELSE Value(Unwrap(doc))

NoCall == [op |-> "none"]

\* the worker threads, and a worker that runs no call
Workers == {1, 2}

IdleWorker ==
    [pc |-> "idle", arg |-> NoCall, reference |-> <<>>, visited |-> {},
     target |-> NoResult, result |-> NoResult]

\* types.rs GeneratorConfig: the two switches that generate reads
Config(generate_models, generate_controllers) ==
    [generate_models |-> generate_models,
     generate_controllers |-> generate_controllers]

\* a generator that runs no call; written lists the files of the output
\* directory, pending the classes that are still to be written
IdleGenerator ==
    [step |-> "idle", config |-> Config(TRUE, TRUE), pending |-> <<>>,
     written |-> <<>>, result |-> NoResult]

Init ==
    /\ spec = None
    /\ pc = "idle"
    /\ call = NoCall
    /\ reference = <<>>
    /\ visited = {}
    /\ lookups = <<>>
    /\ schemas = <<>>
    /\ result = NoResult
    /\ workers = [w \in Workers |-> IdleWorker]
    /\ gen = IdleGenerator

\* the deserialized document is stored before it is validated
ParseFileStoresFirst(file) ==
    /\ pc = "idle"
    /\ LET out == parse_file(file) IN
        /\ spec' = IF file.readable /\ file.wellformed
                       /\ file.extension \in {"json", "yaml", "yml"}
                    THEN Some(file.doc) ELSE spec
        /\ result' = out
    /\ call' = [op |-> "parse_file", arg |-> file]
    /\ pc' = "done"
    /\ UNCHANGED <<reference, visited, lookups, schemas, workers, gen>>

\* lines 94-116: the document is stored after the validation has passed
ParseFile(file) ==
    /\ pc = "idle"
    /\ LET out == parse_file(file) IN
        /\ spec' = IF out.kind = "Ok" THEN Some(out.value) ELSE spec
        /\ result' = out
    /\ call' = [op |-> "parse_file", arg |-> file]
    /\ pc' = "done"
    /\ UNCHANGED <<reference, visited, lookups, schemas, workers, gen>>

\* lines 185-187: the call starts the recursion with an empty visited set
ResolveReference(r) ==
    /\ pc = "idle"
    /\ call' = [op |-> "resolve_reference", arg |-> r]
    /\ reference' = r
    /\ visited' = {}
    /\ lookups' = <<>>
    /\ pc' = "resolving"
    /\ UNCHANGED <<spec, schemas, result, workers, gen>>

\* what one activation leaves: its visited set, its lookup, and the pointer
\* of its recursive call or the result of the call
Activation(f, looked) ==
    /\ visited' = f.visited
    /\ lookups' = looked \o f.looked
    /\ IF f.out.kind = "Recurse"
       THEN /\ reference' = f.out.reference
            /\ UNCHANGED <<pc, result>>
       ELSE /\ result' = f.out
            /\ pc' = "done"
            /\ UNCHANGED reference

\* every activation starts from an empty visited set (and an empty record
\* of lookups)
ResolveReferenceWithFreshVisited ==
    /\ pc = "resolving"
    /\ Activation(ResolveReferenceFrame(spec, reference, {}), <<>>)
    /\ UNCHANGED <<spec, call, schemas, workers, gen>>

\* lines 189-223: one activation of the recursion
ResolveReferenceWithVisited ==
    /\ pc = "resolving"
    /\ Activation(ResolveReferenceFrame(spec, reference, visited), lookups)
    /\ UNCHANGED <<spec, call, schemas, workers, gen>>

\* the schemas given inline to resolve_schema
InlineInputs ==
    IF IsSome(spec) /\ Unwrap(spec) \in CompositionDocuments
    THEN Compositions
    ELSE Leaves \cup {N1, Node} \cup
         {[DefaultSchema EXCEPT !.all_of = <<ReferenceTo(Ptr(A)), SchemaOf(L2)>>],
          [DefaultSchema EXCEPT !.one_of = <<ReferenceTo(Ptr(A)), SchemaOf(L2)>>],
          [DefaultSchema EXCEPT !.any_of = <<SchemaOf(L3), ReferenceTo(Ptr(B))>>]}

ResolveSchema(schema_or_ref, hashOrder) ==
    /\ pc = "idle"
    /\ call' = [op |-> "resolve_schema", arg |-> schema_or_ref]
    /\ result' = resolve_schema(spec, schema_or_ref, hashOrder)
    /\ pc' = "done"
    /\ UNCHANGED <<spec, reference, visited, lookups, schemas, workers, gen>>

\* the caller takes the result
Return ==
    /\ pc = "done"
    /\ pc' = "idle"
    /\ call' = NoCall
    /\ result' = NoResult
    /\ reference' = <<>>
    /\ visited' = {}
    /\ lookups' = <<>>
    /\ schemas' = <<>>
    /\ UNCHANGED <<spec, workers, gen>>

\* lines 532-533: the call; without a document the unwrap panics
GetAllSchemas ==
    /\ pc = "idle"
    /\ call' = [op |-> "get_all_schemas"]
    /\ schemas' = <<>>
    /\ IF IsNone(spec)
       THEN result' = Panic /\ pc' = "done"
       ELSE pc' = "collecting" /\ UNCHANGED result
    /\ UNCHANGED <<spec, reference, visited, lookups, workers, gen>>

\* the entries of components.schemas, none without a components table
Entries(doc) ==
    IF IsNone(Unwrap(doc).components) THEN <<>>
    ELSE Unwrap(Unwrap(doc).components).schemas

\* a failing entry is recorded with an empty schema and the loop goes on
PushEvenIfFailing(name, schema) ==
    /\ schemas' = IF schema.kind # "Ok" THEN Append(schemas, <<name, L0>>)
                  ELSE Append(schemas, <<name, schema.value>>)
    /\ UNCHANGED <<pc, result>>

\* lines 537-538: the ? on the outcome of resolve_schema, and the push
PushOrReturn(name, schema) ==
    IF schema.kind # "Ok"
    THEN /\ result' = schema
         /\ pc' = "done"
         /\ schemas' = <<>>
    ELSE /\ schemas' = Append(schemas, <<name, schema.value>>)
         /\ UNCHANGED <<pc, result>>

\* lines 535-542: one turn of the loop over the entries, or the return after
\* the last one; every resolve_schema call has a hash set of its own
GetAllSchemasEntry(hashOrder) ==
    /\ pc = "collecting"
    /\ IF Len(schemas) = Len(Entries(spec))
       THEN /\ result' = Ok(schemas)
            /\ pc' = "done"
            /\ schemas' = <<>>
       ELSE PushOrReturn(Entries(spec)[Len(schemas) + 1].name,
                resolve_schema(spec, Entries(spec)[Len(schemas) + 1].value,
                               hashOrder))
    /\ UNCHANGED <<spec, call, reference, visited, lookups, workers, gen>>

GetAllSchemasStep ==
    /\ pc = "collecting"
    /\ \E hashOrder \in HashOrders : GetAllSchemasEntry(hashOrder)

GetAllTags(hashOrder) ==
    /\ pc = "idle"
    /\ call' = [op |-> "get_all_tags"]
    /\ result' = get_all_tags(spec, hashOrder)
    /\ pc' = "done"
    /\ UNCHANGED <<spec, reference, visited, lookups, schemas, workers, gen>>

GetAllTagsCall ==
    /\ pc = "idle"
    /\ \E hashOrder \in TagOrders : GetAllTags(hashOrder)

GetOperationsByTag ==
    /\ pc = "idle"
    /\ call' = [op |-> "get_operations_by_tag"]
    /\ result' = get_operations_by_tag(spec)
    /\ pc' = "done"
    /\ UNCHANGED <<spec, reference, visited, lookups, schemas, workers, gen>>

GetSpec ==
    /\ pc = "idle"
    /\ call' = [op |-> "get_spec"]
    /\ result' = get_spec(spec)
    /\ pc' = "done"
    /\ UNCHANGED <<spec, reference, visited, lookups, schemas, workers, gen>>

\* resolve_schema on an inline schema
ResolveInline ==
    /\ pc = "idle"
    /\ \E s \in InlineInputs, h \in HashOrders : ResolveSchema(SchemaOf(s), h)

\* resolve_schema on a reference
ResolveReferenced ==
    /\ pc = "idle"
    /\ \E r \in Pointers, h \in HashOrders : ResolveSchema(ReferenceTo(r), h)

Next ==
    \/ \E file \in Files : ParseFile(file)
    \/ \E r \in Pointers : ResolveReference(r)
    \/ ResolveReferenceWithVisited
    \/ ResolveInline
    \/ ResolveReferenced
    \/ GetAllSchemas
    \/ GetAllSchemasStep
    \/ GetAllTagsCall
    \/ GetOperationsByTag
    \/ GetSpec
    \/ Return

Spec == Init /\ [][Next]_vars

\* the recursion is never suspended
LiveSpec == Spec /\ WF_vars(ResolveReferenceWithVisited)

\* ------------------------------------------------------------------------
\* resolve_schema on worker threads
\* ------------------------------------------------------------------------
\* generator.rs lines 81-84, 178, 222, 263 and 399: the closures that rayon
\* runs on its worker threads call resolve_schema through a shared
\* reference to the parser; parse_file needs the exclusive reference and
\* cannot run meanwhile, so the stored document is fixed.
ParkedParser ==
    /\ pc = "idle"
    /\ call = NoCall
    /\ reference = <<>>
    /\ visited = {}
    /\ lookups = <<>>
    /\ schemas = <<>>
    /\ result = NoResult

\* tables with a chain of references, a cycle and a dangling reference
ParTables ==
    {<<[name |-> A, value |-> ReferenceTo(Ptr(B))],
       [name |-> B, value |-> ReferenceTo(Ptr(C))],
       [name |-> C, value |-> SchemaOf(L1)]>>,
     <<[name |-> A, value |-> ReferenceTo(Ptr(B))],
       [name |-> B, value |-> ReferenceTo(Ptr(A))],
       [name |-> C, value |-> ReferenceTo(Ptr(Ghost))]>>}

ParDocuments ==
    CompositionDocuments \cup RecursiveDocuments
    \cup {Document(V3, Str("API"), Some([schemas |-> t])) : t \in ParTables}

\* the schemas and references the workers resolve
WorkerArguments ==
    {ReferenceTo(Ptr(A)), ReferenceTo(Ptr(B)), ReferenceTo(Ptr(C)),
     ReferenceTo(Ptr(Ghost)), SchemaOf(L1),
     SchemaOf([DefaultSchema EXCEPT !.any_of = <<SchemaOf(L2), ReferenceTo(Ptr(A))>>])}

ParInit ==
    /\ spec \in {Some(doc) : doc \in ParDocuments}
    /\ ParkedParser
    /\ workers = [w \in Workers |-> IdleWorker]
    /\ gen = IdleGenerator

\* parser.rs lines 257-272: the call of worker w; a reference goes to
\* resolve_reference, which starts with a visited set of its own
WorkerCall(w, schema_or_ref) ==
    /\ workers[w].pc = "idle"
    /\ workers' =
          [workers EXCEPT ![w] =
              IF schema_or_ref.kind = "Schema"
              THEN [IdleWorker EXCEPT !.pc = "dispatching",
                                      !.arg = schema_or_ref,
                                      !.target = Ok(schema_or_ref.schema)]
              ELSE [IdleWorker EXCEPT !.pc = "resolving",
                                      !.arg = schema_or_ref,
                                      !.reference = schema_or_ref.reference]]
    /\ UNCHANGED <<spec, pc, call, reference, visited, lookups, schemas,
                   result, gen>>

\* what one activation leaves in the worker
WorkerActivation(w, f) ==
    workers' =
       [workers EXCEPT ![w] =
           IF f.out.kind = "Recurse"
           THEN [@ EXCEPT !.reference = f.out.reference,
                          !.visited = f.visited]
           ELSE [@ EXCEPT !.visited = f.visited,
                          !.target = f.out,
                          !.pc = "dispatching"]]

\* parser.rs lines 189-223: one activation of the recursion of worker w
WorkerResolve(w) ==
    /\ workers[w].pc = "resolving"
    /\ WorkerActivation(w, ResolveReferenceFrame(spec, workers[w].reference,
                                                  workers[w].visited))
    /\ UNCHANGED <<spec, pc, call, reference, visited, lookups, schemas,
                   result, gen>>

\* parser.rs lines 261-269 and 272-282: the dispatch on the keywords of
\* the target, with the hash set of this call
WorkerDispatch(w, hashOrder) ==
    /\ workers[w].pc = "dispatching"
    /\ workers' =
          [workers EXCEPT ![w] =
              [@ EXCEPT !.pc = "done",
                        !.result = DispatchResolved(spec, workers[w].target,
                                                    hashOrder)]]
    /\ UNCHANGED <<spec, pc, call, reference, visited, lookups, schemas,
                   result, gen>>

\* the closure of worker w takes the result
WorkerReturn(w) ==
    /\ workers[w].pc = "done"
    /\ workers' = [workers EXCEPT ![w] = IdleWorker]
    /\ UNCHANGED <<spec, pc, call, reference, visited, lookups, schemas,
                   result, gen>>

ParNext ==
    \/ \E w \in Workers, a \in WorkerArguments : WorkerCall(w, a)
    \/ \E w \in Workers : WorkerResolve(w)
    \/ \E w \in Workers, h \in HashOrders : WorkerDispatch(w, h)
    \/ \E w \in Workers : WorkerReturn(w)

ParSpec == ParInit /\ [][ParNext]_vars

\* ------------------------------------------------------------------------
\* The generator
\* ------------------------------------------------------------------------
\* a failed call of tokio::fs, with the context generate attaches to it
io_error(context) == [kind |-> "Io", context |-> context]

RECURSIVE get_all_schemas(_, _, _, _)

\* parser.rs lines 537-538: the ? on the outcome of resolve_schema, and the
\* push
PushOrStop(doc, rest, hashOrder, acc, name, schema) ==
    IF schema.kind # "Ok" THEN schema
    ELSE get_all_schemas(doc, rest, hashOrder, Append(acc, <<name, schema.value>>))

\* parser.rs lines 535-542: the loop over the entries that are left
get_all_schemas(doc, entries, hashOrder, acc) ==
    IF Len(entries) = 0 THEN Ok(acc)
    ELSE PushOrStop(doc, Tail(entries), hashOrder, acc, entries[1].name,
                    resolve_schema(doc, entries[1].value, hashOrder))

RECURSIVE map_schema_to_kotlin_type(_, _, _, _)

\* generator.rs lines 178-183 and 399-400: the ? on the outcome of
\* resolve_schema, then the type of the resolved schema
MapResolved(doc, resolved, hashOrder, depth) ==
    IF resolved.kind # "Ok" THEN resolved
    ELSE map_schema_to_kotlin_type(doc, resolved.value, hashOrder, depth)

\* generator.rs lines 377-416: only an array with items resolves anything;
\* the name of the type is left out
map_schema_to_kotlin_type(doc, schema, hashOrder, depth) ==
    IF schema.schema_type = Some(Str("array")) /\ IsSome(schema.items)
    THEN IF depth > MaxDepth THEN StackOverflow
         ELSE MapResolved(doc, resolve_schema(doc, Unwrap(schema.items), hashOrder),
                          hashOrder, depth + 1)
    ELSE Ok(<<>>)

RECURSIVE ConvertProperties(_, _, _)

\* the ? on the conversion of one property, then the next property
ThenConvert(doc, rest, hashOrder, converted) ==
    IF converted.kind # "Ok" THEN converted
    ELSE ConvertProperties(doc, rest, hashOrder)

\* generator.rs lines 177-188: the loop over the properties
ConvertProperties(doc, properties, hashOrder) ==
    IF Len(properties) = 0 THEN Ok(<<>>)
    ELSE ThenConvert(doc, Tail(properties), hashOrder,
                     MapResolved(doc,
                                 resolve_schema(doc, properties[1].value, hashOrder),
                                 hashOrder, 1))

\* generator.rs lines 255-261: the properties of a variant without the
\* discriminator property
WithoutDiscriminator(schema, properties) ==
    IF IsNone(schema.discriminator) THEN properties
    ELSE SelectSeq(properties,
                   LAMBDA q : q.name # Unwrap(schema.discriminator).property_name)

\* generator.rs lines 194-283: the base properties, then the properties of
\* every variant
convert_one_of_to_sealed_class(doc, schema, hashOrder) ==
    ConvertProperties(doc,
        schema.properties
        \o Flatten([i \in 1..Len(Unwrap(schema.one_of_variants)) |->
                       WithoutDiscriminator(schema,
                           Unwrap(schema.one_of_variants)[i][2].properties)]),
        hashOrder)

\* generator.rs lines 147-192: Ok, or the error of the first property that
\* does not convert
convert_schema_to_kotlin_class(doc, schema, hashOrder) ==
    IF IsSome(schema.one_of_variants)
    THEN convert_one_of_to_sealed_class(doc, schema, hashOrder)
    ELSE IF IsSome(schema.any_of_variants) THEN Ok(<<>>)
    ELSE ConvertProperties(doc, schema.properties, hashOrder)

\* generator.rs lines 606-625: the type of the body of the success response
determine_return_type(doc, operation, hashOrder) ==
    IF IsNone(operation.response) THEN Ok(<<>>)
    ELSE MapResolved(doc, resolve_schema(doc, Unwrap(operation.response), hashOrder),
                     hashOrder, 1)

RECURSIVE convert_operations_to_kotlin_controller(_, _, _)

\* the ? on the conversion of one operation, then the next operation
ThenConvertOperation(doc, rest, hashOrder, converted) ==
    IF converted.kind # "Ok" THEN converted
    ELSE convert_operations_to_kotlin_controller(doc, rest, hashOrder)

\* generator.rs lines 473-497: Ok, or the error of the first operation that
\* does not convert
convert_operations_to_kotlin_controller(doc, operations, hashOrder) ==
    IF Len(operations) = 0 THEN Ok(<<>>)
    ELSE ThenConvertOperation(doc, Tail(operations), hashOrder,
                              determine_return_type(doc, operations[1][3], hashOrder))

\* ---- the files given to generate ----
GenTables ==
    {<<[name |-> A, value |-> SchemaOf(SchemaA)],
       [name |-> B, value |-> SchemaOf(L2)],
       [name |-> C, value |-> ReferenceTo(Ptr(B))]>>,
     <<[name |-> A, value |-> SchemaOf(SchemaA)],
       [name |-> B, value |-> ReferenceTo(Ptr(Ghost))]>>,
     <<[name |-> A, value |-> SchemaOf(Node)],
       [name |-> B, value |-> SchemaOf(Nodes)]>>,
     <<[name |-> A,
        value |-> SchemaOf([DefaultSchema EXCEPT
                               !.properties = <<[name |-> Str("x"),
                                                 value |-> ReferenceTo(Ptr(B))]>>])],
       [name |-> B, value |-> ArrayOf(ReferenceTo(Ptr(B)))]>>,
     <<[name |-> A, value |-> SchemaOf(SchemaA)],
       [name |-> B,
        value |-> SchemaOf([DefaultSchema EXCEPT
                               !.one_of = <<SchemaOf(L1), ReferenceTo(Ptr(A))>>,
                               !.discriminator = Some(Discriminator("x"))])]>>}

GenPaths ==
    {<<>>,
     <<[name |-> <<"/", "p">>,
        value |-> PathItem(Some(Operation(<<TagA>>)), None,
                           Some(Operation(<<>>)), None, None, None, None, None)]>>,
     <<[name |-> <<"/", "p">>,
        value |-> PathItem(Some(Returning(Operation(<<TagA>>), ReferenceTo(Ptr(A)))),
                           None,
                           Some(Returning(Operation(<<TagB>>),
                                          ReferenceTo(Ptr(Ghost)))),
                           None, None, None, None, None)]>>}

GenDocuments ==
    {[Document(V3, Str("API"), c) EXCEPT !.paths = p] :
        c \in {None} \cup {Some([schemas |-> t]) : t \in GenTables},
        p \in GenPaths}
    \cup {Document(<<"2", ".", "0">>, Str("API"), None)}

GenFiles ==
    {File(TRUE, "yaml", TRUE, doc) : doc \in GenDocuments}
    \cup {File(FALSE, "json", TRUE, Document(V3, Str("API"), None)),
          File(TRUE, "json", FALSE, Document(V3, Str("API"), None))}

Configs == {Config(m, c) : m \in BOOLEAN, c \in BOOLEAN}

GenInit ==
    /\ spec = None
    /\ ParkedParser
    /\ workers = [w \in Workers |-> IdleWorker]
    /\ gen = IdleGenerator

\* the call ends with this result
Finished(out) == gen' = [gen EXCEPT !.step = "done", !.result = out]

\* the stage that follows the output directory, the models or the
\* controllers
StageAfter(stage) ==
    IF stage = "create_dir" /\ gen.config.generate_models THEN "models"
    ELSE IF stage \in {"create_dir", "models"} /\ gen.config.generate_controllers
    THEN "controllers"
    ELSE "build"

\* generator.rs line 31: the ? on the outcome of parse_file
Parsed(config, out) ==
    /\ spec' = IF out.kind = "Ok" THEN Some(out.value) ELSE spec
    /\ gen' = IF out.kind = "Ok"
              THEN [IdleGenerator EXCEPT !.step = "create_dir", !.config = config]
              ELSE [IdleGenerator EXCEPT !.step = "done", !.config = config,
                                         !.result = out]

\* generator.rs lines 29-31: generate parses the file into its parser
Generate(file, config) ==
    /\ gen.step = "idle"
    /\ Parsed(config, parse_file(file))
    /\ UNCHANGED <<pc, call, reference, visited, lookups, schemas, result,
                   workers>>

\* generator.rs lines 41-43
CreateOutputDir(ok) ==
    /\ gen.step = "create_dir"
    /\ IF ok THEN gen' = [gen EXCEPT !.step = StageAfter("create_dir")]
       ELSE Finished(Err(io_error(Str("Failed to create output directory"))))
    /\ UNCHANGED <<spec, pc, call, reference, visited, lookups, schemas,
                   result, workers>>

\* the entries whose class does not convert
NotConverted(all, hashOrder) ==
    {i \in 1..Len(all) :
        convert_schema_to_kotlin_class(spec, all[i][2], hashOrder).kind # "Ok"}

\* generator.rs lines 81-86: the classes are converted on the worker
\* threads; when several fail, collect returns the error of one of them
Converted(all, hashOrder) ==
    IF NotConverted(all, hashOrder) = {}
    THEN gen' = [gen EXCEPT !.step = "write_models",
                            !.pending = [i \in 1..Len(all) |->
                                            <<"model", all[i][1]>>]]
    ELSE \E i \in NotConverted(all, hashOrder) :
            Finished(convert_schema_to_kotlin_class(spec, all[i][2], hashOrder))

\* generator.rs line 77: the ? on the outcome of get_all_schemas
Collected(all, hashOrder) ==
    IF all.kind # "Ok" THEN Finished(all)
    ELSE Converted(all.value, hashOrder)

\* generator.rs lines 76-86; one order stands for the hash sets of all the
\* calls, the order of a required list does not reach the file names
GenerateModels(hashOrder) ==
    /\ gen.step = "models"
    /\ Collected(get_all_schemas(spec, Entries(spec), hashOrder, <<>>), hashOrder)
    /\ UNCHANGED <<spec, pc, call, reference, visited, lookups, schemas,
                   result, workers>>

\* generator.rs lines 641-668 and 670-699, inside the two write loops: the next
\* class is written, or the write fails, or none is left
WriteNext(stage, ok) ==
    IF Len(gen.pending) = 0
    THEN gen' = [gen EXCEPT !.step = StageAfter(stage)]
    ELSE IF ok
    THEN gen' = [gen EXCEPT !.written = Append(@, gen.pending[1]),
                            !.pending = Tail(@)]
    ELSE Finished(Err(io_error(Str("Failed to write file"))))

\* generator.rs lines 89-104
WriteModel(ok) ==
    /\ gen.step = "write_models"
    /\ WriteNext("models", ok)
    /\ UNCHANGED <<spec, pc, call, reference, visited, lookups, schemas,
                   result, workers>>

\* the tags whose controller does not convert
NotConvertedTags(tagged, hashOrder) ==
    {t \in DOMAIN tagged :
        convert_operations_to_kotlin_controller(spec, tagged[t], hashOrder).kind
        # "Ok"}

\* generator.rs lines 110-122: one controller for every key of the map, in
\* the order in which the map iterates; the controllers are converted on
\* the worker threads, and when several fail collect returns the error of
\* one of them. Only the return type of an operation resolves a schema
\* here, the operations of the documents have no parameters or bodies.
ControllersConverted(tagged, hashOrder) ==
    IF NotConvertedTags(tagged, hashOrder) = {}
    THEN \E order \in Orderings(DOMAIN tagged) :
            gen' = [gen EXCEPT !.step = "write_controllers",
                               !.pending = [i \in 1..Len(order) |->
                                               <<"controller", order[i]>>]]
    ELSE \E t \in NotConvertedTags(tagged, hashOrder) :
            Finished(convert_operations_to_kotlin_controller(spec, tagged[t],
                                                             hashOrder))

GenerateControllers(hashOrder) ==
    /\ gen.step = "controllers"
    /\ ControllersConverted(get_operations_by_tag(spec).value, hashOrder)
    /\ UNCHANGED <<spec, pc, call, reference, visited, lookups, schemas,
                   result, workers>>

\* generator.rs lines 125-142
WriteController(ok) ==
    /\ gen.step = "write_controllers"
    /\ WriteNext("controllers", ok)
    /\ UNCHANGED <<spec, pc, call, reference, visited, lookups, schemas,
                   result, workers>>

\* generator.rs lines 66-73 and 701-719
GenerateBuildFile(ok) ==
    /\ gen.step = "build"
    /\ IF ok
       THEN gen' = [gen EXCEPT !.step = "done",
                               !.written = Append(@, <<"build.gradle.kts">>),
                               !.result = Ok(Len(gen.written) + 1)]
       ELSE Finished(Err(io_error(Str("Failed to write build.gradle.kts"))))
    /\ UNCHANGED <<spec, pc, call, reference, visited, lookups, schemas,
                   result, workers>>

\* the caller takes the result; the next run is given an empty output
\* directory
GenReturn ==
    /\ gen.step = "done"
    /\ gen' = IdleGenerator
    /\ UNCHANGED <<spec, pc, call, reference, visited, lookups, schemas,
                   result, workers>>

GenNext ==
    \/ \E file \in GenFiles, config \in Configs : Generate(file, config)
    \/ \E ok \in BOOLEAN : CreateOutputDir(ok)
    \/ \E h \in HashOrders : GenerateModels(h)
    \/ \E ok \in BOOLEAN : WriteModel(ok)
    \/ \E h \in HashOrders : GenerateControllers(h)
    \/ \E ok \in BOOLEAN : WriteController(ok)
    \/ \E ok \in BOOLEAN : GenerateBuildFile(ok)
    \/ GenReturn

GenSpec == GenInit /\ [][GenNext]_vars

TypeOK ==
    /\ pc \in {"idle", "resolving", "collecting", "done"}
    /\ result.kind \in {"None", "Ok", "Value", "Err", "Panic", "StackOverflow"}

\* ------------------------------------------------------------------------
\* What the documents say, read off the components table alone
\* ------------------------------------------------------------------------
Returned(op) == pc = "done" /\ call.op = op

\* the components schema table of the stored document, empty without one
Table ==
    IF IsSome(spec) /\ IsSome(Unwrap(spec).components)
    THEN Unwrap(Unwrap(spec).components).schemas
    ELSE <<>>

Last(seq) == seq[Len(seq)]

IsInternal(p) == Len(p) >= 2 /\ p[1] = "#" /\ p[2] = "/"

\* p is exactly "#/components/schemas/<name>" for a key <name> of the table
NamesEntry(table, p) == \E i \in 1..Len(table) : p = Ptr(table[i].name)

EntryNamed(table, p) ==
    table[CHOOSE i \in 1..Len(table) : p = Ptr(table[i].name)].value

NamesReference(table, p) ==
    NamesEntry(table, p) /\ EntryNamed(table, p).kind = "Reference"

\* The chain of pointers from p: every pointer but the last names a
\* Reference entry to the next; the last one is the first pointer that
\* repeats an earlier one or names no Reference entry.
RECURSIVE ChainFrom(_, _, _)
ChainFrom(table, acc, p) ==
    IF p \in Elems(acc) THEN Append(acc, p)
    ELSE IF NamesReference(table, p)
    THEN ChainFrom(table, Append(acc, p), EntryNamed(table, p).reference)
    ELSE Append(acc, p)

Chain(table, p) == ChainFrom(table, <<>>, p)

ChainRepeats(table, p) ==
    LET ch == Chain(table, p) IN
    \E i \in 1..(Len(ch) - 1) : ch[i] = Last(ch)

Failed(kind) == result.kind = "Err" /\ result.error.kind = kind

\* ------------------------------------------------------------------------
\* Reference resolver: properties
\* ------------------------------------------------------------------------
\* C1: when the chain of Reference entries from the pointer given to
\* resolve_reference comes back to a pointer it has already passed, the call
\* fails as CircularReference, naming the repeated pointer.
C1_CycleIsCircularReference ==
    (Returned("resolve_reference") /\ IsSome(spec)
        /\ ChainRepeats(Table, call.arg))
    => /\ Failed("CircularReference")
       /\ result.error.reference = Last(Chain(Table, call.arg))

\* a cycle of three entries, entered at A
C1_Witness ==
    /\ Returned("resolve_reference")
    /\ call.arg = Ptr(A)
    /\ Chain(Table, Ptr(A)) = <<Ptr(A), Ptr(B), Ptr(C), Ptr(A)>>
    /\ Failed("CircularReference")

\* C2: every resolve_reference call returns: a recursion that has started
\* reaches its result, on tables with cycles as on any other.
C2_ResolveReferenceTerminates == (pc = "resolving") ~> (pc = "done")

\* a call on a cycle of three entries has returned
C2_Witness ==
    /\ Returned("resolve_reference")
    /\ Cardinality(visited) = 3
    /\ ChainRepeats(Table, call.arg)
    /\ result.kind = "Err"

\* C3: a pointer that does not start with "#/" fails as
\* ExternalReferenceNotSupported, whether it is the pointer given to
\* resolve_reference or one that a chain of Reference entries leads to; the
\* error names that pointer.
C3_ExternalIsRejected ==
    (Returned("resolve_reference") /\ IsSome(spec)
        /\ ~IsInternal(Last(Chain(Table, call.arg))))
    => /\ Failed("ExternalReferenceNotSupported")
       /\ result.error.reference = Last(Chain(Table, call.arg))

\* an external pointer met after two Reference entries
C3_Witness ==
    /\ Returned("resolve_reference")
    /\ Len(Chain(Table, call.arg)) = 3
    /\ Last(Chain(Table, call.arg)) = ExternalPtr
    /\ Failed("ExternalReferenceNotSupported")

\* C4: a pointer that starts with "#/" and is not exactly
\* "#/components/schemas/<name>" for a key <name> of the table fails as
\* ReferenceNotFound.
C4_OnlyExactShapeResolves ==
    (Returned("resolve_reference") /\ IsSome(spec)
        /\ IsInternal(call.arg) /\ ~NamesEntry(Table, call.arg))
    => Failed("ReferenceNotFound")

\* C5: an acyclic chain of n pointers that ends at an inline schema S returns
\* S after exactly n lookups; no name is looked up twice in one call, and a
\* lookup that finds nothing is the last one.
C5_ExactlyNLookups ==
    (Returned("resolve_reference") /\ IsSome(spec))
    => /\ LET ch == Chain(Table, call.arg) IN
          (/\ NamesEntry(Table, Last(ch))
           /\ EntryNamed(Table, Last(ch)).kind = "Schema")
          => /\ result = Ok(EntryNamed(Table, Last(ch)).schema)
             /\ Len(lookups) = Len(ch)
       /\ \A i, j \in 1..Len(lookups) : i # j => lookups[i] # lookups[j]
       /\ \A i \in 1..Len(lookups) :
             ~ContainsKey(Table, lookups[i]) => i = Len(lookups)

\* ------------------------------------------------------------------------
\* Composition resolver: properties
\* ------------------------------------------------------------------------
\* the schema whose keywords a resolve_schema call dispatches on
CallTarget ==
    IF call.arg.kind = "Schema" THEN Ok(call.arg.schema)
    ELSE resolve_reference(spec, call.arg.reference)

\* a resolve_schema call that took the allOf merge and returned a schema
AllOfReturned ==
    /\ Returned("resolve_schema")
    /\ result.kind = "Ok"
    /\ CallTarget.kind = "Ok"
    /\ Len(CallTarget.value.all_of) > 0

\* the members of that allOf, each in its flattened form
FlatMembers ==
    [i \in 1..Len(CallTarget.value.all_of) |->
        AllOfMember(spec, CallTarget.value.all_of[i], 1).value]

Min(S) == CHOOSE x \in S : \A y \in S : x <= y

Max(S) == CHOOSE x \in S : \A y \in S : x >= y

\* C6: a schema that resolve_schema returns has empty allOf, oneOf and anyOf
\* lists.
C6_NoCompositionLeft ==
    (Returned("resolve_schema") /\ result.kind = "Ok")
    => /\ result.value.all_of = <<>>
       /\ result.value.one_of = <<>>
       /\ result.value.any_of = <<>>

\* the schema with only its keyword of highest priority
HighestOnly(t) ==
    IF Len(t.all_of) > 0 THEN [t EXCEPT !.one_of = <<>>, !.any_of = <<>>]
    ELSE IF Len(t.one_of) > 0 THEN [t EXCEPT !.any_of = <<>>]
    ELSE t

\* the one merge that the priority order selects
SelectedMerge(t, hashOrder) ==
    IF Len(t.all_of) > 0 THEN resolve_all_of_schema(spec, t, t.all_of, 1)
    ELSE IF Len(t.one_of) > 0 THEN resolve_one_of_schema(spec, t, t.one_of)
    ELSE IF Len(t.any_of) > 0
    THEN resolve_any_of_schema(spec, t, t.any_of, hashOrder)
    ELSE Ok(t)

SameShape(r1, r2) ==
    /\ r1.kind = r2.kind
    /\ r1.kind = "Err" => r1 = r2
    /\ r1.kind = "Ok" =>
         /\ r1.value.properties = r2.value.properties
         /\ r1.value.required = r2.value.required
         /\ r1.value.one_of_variants = r2.value.one_of_variants
         /\ r1.value.any_of_variants = r2.value.any_of_variants

\* C7: resolve_schema applies the allOf merge if allOf is non-empty, else the
\* oneOf merge if oneOf is non-empty, else the anyOf merge, to an inline
\* schema and to the target of a reference alike; the result has the
\* properties, required names and variants that this one merge gives for
\* the schema without its keywords of lower priority.
C7_DispatchPriority ==
    (Returned("resolve_schema") /\ CallTarget.kind = "Ok")
    => \E h \in HashOrders :
          SameShape(result, SelectedMerge(HighestOnly(CallTarget.value), h))

\* a reference to a stored schema with all three keywords has been resolved
C7_Witness ==
    /\ Returned("resolve_schema")
    /\ call.arg.kind = "Reference"
    /\ CallTarget.kind = "Ok"
    /\ Len(CallTarget.value.all_of) > 0
    /\ Len(CallTarget.value.one_of) > 0
    /\ Len(CallTarget.value.any_of) > 0
    /\ result.kind = "Ok"

\* where a property name is first declared: <<member, position in it>>
FirstDeclared(k) ==
    LET m == Min({i \in DOMAIN FlatMembers :
                     ContainsKey(FlatMembers[i].properties, k)})
    IN <<m, IndexOf(FlatMembers[m].properties, k)>>

LastDeclaring(k) ==
    Max({i \in DOMAIN FlatMembers : ContainsKey(FlatMembers[i].properties, k)})

\* C8: the properties of an allOf result are the union of the flattened
\* members' properties: each name once, with the definition of the last
\* member that declares it, in the order of the first declarations; the
\* combining schema's own properties are not among them.
C8_AllOfProperties ==
    AllOfReturned =>
    LET props == result.value.properties IN
    /\ Keys(props) = UNION {Keys(FlatMembers[i].properties) :
                               i \in DOMAIN FlatMembers}
    /\ \A a, b \in 1..Len(props) : a # b => props[a].name # props[b].name
    /\ \A a \in 1..Len(props) :
          Some(props[a].value) =
             Get(FlatMembers[LastDeclaring(props[a].name)].properties,
                 props[a].name)
    /\ \A a, b \in 1..Len(props) :
          a < b =>
            LET fa == FirstDeclared(props[a].name)
                fb == FirstDeclared(props[b].name)
            IN fa[1] < fb[1] \/ (fa[1] = fb[1] /\ fa[2] < fb[2])

\* two members declare x with different definitions, the second one first
\* declares y, and the combining schema has a property of its own
C8_Witness ==
    /\ AllOfReturned
    /\ Len(CallTarget.value.properties) > 0
    /\ Len(FlatMembers) = 2
    /\ Keys(FlatMembers[1].properties) = {Str("x")}
    /\ Keys(FlatMembers[2].properties) = {Str("x"), Str("y")}
    /\ FlatMembers[2].properties[1].name = Str("y")
    /\ Get(FlatMembers[1].properties, Str("x"))
          # Get(FlatMembers[2].properties, Str("x"))

\* the members' required lists, one after the other
RECURSIVE ConcatRequired(_)
ConcatRequired(members) ==
    IF Len(members) = 0 THEN <<>>
    ELSE members[1].required \o ConcatRequired(Tail(members))

FirstIndex(seq, x) == Min({i \in 1..Len(seq) : seq[i] = x})

\* C9: the required list of an allOf result is the concatenation of the
\* flattened members' required lists with every name kept at its first
\* occurrence only.
C9_AllOfRequired ==
    AllOfReturned =>
    LET all == ConcatRequired(FlatMembers)
        req == result.value.required
    IN /\ Elems(req) = Elems(all)
       /\ \A a, b \in 1..Len(req) : a # b => req[a] # req[b]
       /\ \A a, b \in 1..Len(req) :
             a < b => FirstIndex(all, req[a]) < FirstIndex(all, req[b])

\* a name is repeated within one member's list and across members
C9_Witness ==
    /\ AllOfReturned
    /\ Len(FlatMembers) = 2
    /\ FlatMembers[1].required = <<Str("y"), Str("y")>>
    /\ FlatMembers[2].required = <<Str("y"), Str("x")>>
    /\ result.value.required = <<Str("y"), Str("x")>>

\* the value of a field after the merge: the combining schema's, else that
\* of the first flattened member that has one
FirstSet(own, fromMembers) ==
    IF IsSome(own) THEN own
    ELSE IF \E i \in DOMAIN fromMembers : IsSome(fromMembers[i])
    THEN fromMembers[Min({i \in DOMAIN fromMembers : IsSome(fromMembers[i])})]
    ELSE None

\* C10: title, description and example of an allOf result are each the
\* combining schema's value if it has one, else the value of the first
\* member (in its flattened form) that has one, each field on its own.
C10_AllOfMetadata ==
    AllOfReturned =>
    /\ result.value.title =
          FirstSet(CallTarget.value.title,
                   [i \in DOMAIN FlatMembers |-> FlatMembers[i].title])
    /\ result.value.description =
          FirstSet(CallTarget.value.description,
                   [i \in DOMAIN FlatMembers |-> FlatMembers[i].description])
    /\ result.value.example =
          FirstSet(CallTarget.value.example,
                   [i \in DOMAIN FlatMembers |-> FlatMembers[i].example])

\* the title comes from the combining schema, the description from the
\* second member although the first has one too late to matter, the example
\* from the first member
C10_Witness ==
    /\ AllOfReturned
    /\ Len(FlatMembers) = 2
    /\ IsSome(CallTarget.value.title)
    /\ IsNone(CallTarget.value.description)
    /\ IsNone(CallTarget.value.example)
    /\ IsSome(FlatMembers[1].title)
    /\ FlatMembers[1].title # CallTarget.value.title
    /\ IsNone(FlatMembers[1].description)
    /\ IsSome(FlatMembers[1].example)
    /\ IsSome(FlatMembers[2].description)
    /\ IsSome(FlatMembers[2].title)
    /\ result.value.title = CallTarget.value.title
    /\ result.value.description = FlatMembers[2].description
    /\ result.value.example = FlatMembers[1].example

\* ------------------------------------------------------------------------
\* oneOf and anyOf
\* ------------------------------------------------------------------------
\* a resolve_schema call that took the oneOf merge and returned a schema
OneOfReturned ==
    /\ Returned("resolve_schema")
    /\ result.kind = "Ok"
    /\ CallTarget.kind = "Ok"
    /\ Len(CallTarget.value.all_of) = 0
    /\ Len(CallTarget.value.one_of) > 0

\* a resolve_schema call that took the anyOf merge and returned a schema
AnyOfReturned ==
    /\ Returned("resolve_schema")
    /\ result.kind = "Ok"
    /\ CallTarget.kind = "Ok"
    /\ Len(CallTarget.value.all_of) = 0
    /\ Len(CallTarget.value.one_of) = 0
    /\ Len(CallTarget.value.any_of) > 0

\* the schema a member stands for: itself, or what its reference resolves to
MemberSchema(m) ==
    IF m.kind = "Schema" THEN m.schema
    ELSE resolve_reference(spec, m.reference).value

\* one pair per member, named by title or by prefix and 1-based position
ExpectedPairs(members, prefix) ==
    [i \in 1..Len(members) |->
        <<IF IsSome(MemberSchema(members[i]).title)
          THEN Unwrap(MemberSchema(members[i]).title)
          ELSE <<prefix, ToString(i)>>,
          MemberSchema(members[i])>>]

\* C11: a oneOf (anyOf) with k members gives exactly k (name, schema) pairs
\* in declaration order; the i-th name is the member's title if it has one
\* and "Variant<i>" ("Option<i>") otherwise, i being the member's 1-based
\* position; a reference member is recorded as the schema it resolves to.
C11_VariantPairs ==
    /\ OneOfReturned =>
          result.value.one_of_variants =
              Some(ExpectedPairs(CallTarget.value.one_of, "Variant"))
    /\ AnyOfReturned =>
          result.value.any_of_variants =
              Some(ExpectedPairs(CallTarget.value.any_of, "Option"))

\* a oneOf whose first member has a title and whose second member is a
\* reference to a schema without one: the second pair is named Variant2
C11_Witness ==
    /\ OneOfReturned
    /\ Len(CallTarget.value.one_of) = 2
    /\ CallTarget.value.one_of[1].kind = "Schema"
    /\ IsSome(CallTarget.value.one_of[1].schema.title)
    /\ CallTarget.value.one_of[2].kind = "Reference"
    /\ Unwrap(result.value.one_of_variants)[2][1] = <<"Variant", "2">>
    /\ Unwrap(result.value.one_of_variants)[2][2] =
           resolve_reference(spec, Ptr(B)).value

\* the discriminator property name of the combining schema
DiscriminatorName == Unwrap(CallTarget.value.discriminator).property_name

StringSchema == SchemaOf([DefaultSchema EXCEPT !.schema_type = Some(Str("string"))])

Occurrences(seq, x) == Cardinality({i \in 1..Len(seq) : seq[i] = x})

\* C12: when the combining schema carries a discriminator with property name
\* d, the oneOf result's properties contain d and its required list contains
\* d exactly once; d is a plain string schema if the combining schema has no
\* property named d, and the existing definition, unchanged, if it has one.
C12_Discriminator ==
    (OneOfReturned /\ IsSome(CallTarget.value.discriminator))
    => /\ ContainsKey(result.value.properties, DiscriminatorName)
       /\ Occurrences(result.value.required, DiscriminatorName) = 1
       /\ Get(result.value.properties, DiscriminatorName) =
            IF ContainsKey(CallTarget.value.properties, DiscriminatorName)
            THEN Get(CallTarget.value.properties, DiscriminatorName)
            ELSE Some(StringSchema)

\* the properties the combining schema declares, with the discriminator
\* property added if it is not among them
OwnProperties(t) ==
    IF IsNone(t.discriminator)
       \/ ContainsKey(t.properties, Unwrap(t.discriminator).property_name)
    THEN t.properties
    ELSE Append(t.properties,
                [name |-> Unwrap(t.discriminator).property_name,
                 value |-> StringSchema])

\* the required names the combining schema declares, with the discriminator
\* property added if it is not among them
OwnRequired(t) ==
    IF IsNone(t.discriminator)
       \/ Contains(t.required, Unwrap(t.discriminator).property_name)
    THEN t.required
    ELSE Append(t.required, Unwrap(t.discriminator).property_name)

\* C13: the oneOf result's properties and required names are exactly those
\* the combining schema declares directly, plus the injected discriminator
\* property if any; nothing of any member is merged in.
C13_OneOfKeepsOwn ==
    OneOfReturned
    => /\ result.value.properties = OwnProperties(CallTarget.value)
       /\ result.value.required = OwnRequired(CallTarget.value)

\* the variants of the anyOf that was resolved
AnyOfVariants ==
    [i \in 1..Len(CallTarget.value.any_of) |->
        MemberSchema(CallTarget.value.any_of[i])]

\* <<variant, position in it>> of every declaration of property k
Declarations(k) ==
    UNION {{<<i, j>> : j \in {n \in 1..Len(AnyOfVariants[i].properties) :
                                  AnyOfVariants[i].properties[n].name = k}} :
           i \in 1..Len(AnyOfVariants)}

Before(a, b) == a[1] < b[1] \/ (a[1] = b[1] /\ a[2] < b[2])

FirstOf(S) == CHOOSE a \in S : \A b \in S \ {a} : Before(a, b)

LastOf(S) == CHOOSE a \in S : \A b \in S \ {a} : Before(b, a)

\* C14: the anyOf result's properties are the union of all variants'
\* properties, in the order of their first declaration, with the value of
\* the last variant that declares the name; its required list holds, as a
\* set, the union of the variants' required names, none of them twice.
C14_AnyOfUnion ==
    AnyOfReturned =>
      LET props == result.value.properties
          req == result.value.required
      IN /\ Keys(props) = UNION {Keys(AnyOfVariants[i].properties) :
                                    i \in 1..Len(AnyOfVariants)}
         /\ \A p, q \in 1..Len(props) :
               p < q => /\ props[p].name # props[q].name
                        /\ Before(FirstOf(Declarations(props[p].name)),
                                  FirstOf(Declarations(props[q].name)))
         /\ \A p \in 1..Len(props) :
               LET last == LastOf(Declarations(props[p].name)) IN
               props[p].value = AnyOfVariants[last[1]].properties[last[2]].value
         /\ Elems(req) = UNION {Elems(AnyOfVariants[i].required) :
                                  i \in 1..Len(AnyOfVariants)}
         /\ \A p, q \in 1..Len(req) : p < q => req[p] # req[q]

\* two variants declare the same property with different schemas and
\* different required names
C14_Witness ==
    /\ AnyOfReturned
    /\ Len(AnyOfVariants) = 2
    /\ \E k \in Keys(AnyOfVariants[1].properties) \cap
                 Keys(AnyOfVariants[2].properties) :
          Get(AnyOfVariants[1].properties, k) # Get(AnyOfVariants[2].properties, k)
    /\ Elems(AnyOfVariants[1].required) \ Elems(AnyOfVariants[2].required) # {}
    /\ Len(result.value.properties) = 2
    /\ Len(result.value.required) = 2

\* C15: resolving the same schema against the same document again gives the
\* same order of properties and the same order of required names, for
\* allOf, oneOf and anyOf alike, whatever order a hash set iterates in.
C15_SameOrderAgain ==
    (Returned("resolve_schema") /\ result.kind = "Ok")
    => \A h \in HashOrders :
          LET again == resolve_schema(spec, call.arg, h) IN
          /\ again.kind = "Ok"
          /\ again.value.properties = result.value.properties
          /\ again.value.required = result.value.required

NoKeywords(t) ==
    Len(t.all_of) = 0 /\ Len(t.one_of) = 0 /\ Len(t.any_of) = 0

\* C16: for a schema without composition keywords resolve_schema returns an
\* equal copy of an inline schema and exactly what resolve_reference
\* returns for a reference; resolving it again gives an equal result.
C16_PlainIsCopied ==
    Returned("resolve_schema") =>
      /\ (call.arg.kind = "Schema" /\ NoKeywords(call.arg.schema))
            => result = Ok(call.arg.schema)
      /\ (call.arg.kind = "Reference"
            /\ (CallTarget.kind = "Ok" => NoKeywords(CallTarget.value)))
            => result = resolve_reference(spec, call.arg.reference)
      /\ (CallTarget.kind = "Ok" /\ NoKeywords(CallTarget.value))
            => \A h \in HashOrders : resolve_schema(spec, call.arg, h) = result

\* a reference that leads through another reference to a schema with
\* properties and no composition keyword has been resolved
C16_Witness ==
    /\ Returned("resolve_schema")
    /\ call.arg.kind = "Reference"
    /\ NamesReference(Table, call.arg.reference)
    /\ CallTarget.kind = "Ok"
    /\ NoKeywords(CallTarget.value)
    /\ Len(CallTarget.value.properties) > 0
    /\ result = CallTarget

\* ------------------------------------------------------------------------
\* The catalog and the tags
\* ------------------------------------------------------------------------
\* what resolve_schema gives for the i-th entry of the table
EntryOutcome(i, h) == resolve_schema(spec, Table[i].value, h)

AnyOrder == CHOOSE h \in HashOrders : TRUE

\* the entries that do not resolve
FailingEntries == {i \in 1..Len(Table) : EntryOutcome(i, AnyOrder).kind # "Ok"}

\* C17: get_all_schemas returns one (name, resolved schema) pair per entry
\* of the components table, in declaration order, when every entry
\* resolves; otherwise it returns the error of the first failing entry, as
\* resolve_schema gives it, and no list; without a components table it
\* returns the empty list.
C17_GetAllSchemas ==
    (Returned("get_all_schemas") /\ IsSome(spec) /\ result.kind \in {"Ok", "Err"})
    => IF IsNone(Unwrap(spec).components) THEN result = Ok(<<>>)
       ELSE IF FailingEntries = {}
       THEN /\ result.kind = "Ok"
            /\ Len(result.value) = Len(Table)
            /\ \A i \in 1..Len(Table) :
                  /\ result.value[i][1] = Table[i].name
                  /\ \E h \in HashOrders :
                        result.value[i][2] = EntryOutcome(i, h).value
       ELSE result = EntryOutcome(Min(FailingEntries), AnyOrder)

\* the first entry resolves, the second and the third fail in different
\* ways, and the error is that of the second
C17_Witness ==
    /\ Returned("get_all_schemas")
    /\ Len(Table) = 3
    /\ FailingEntries = {2, 3}
    /\ EntryOutcome(2, AnyOrder) # EntryOutcome(3, AnyOrder)
    /\ result.kind = "Err"
    /\ result = EntryOutcome(2, AnyOrder)

\* the operations the stored document declares: <<path, method, operation>>
DeclaredOperations ==
    {<<Unwrap(spec).paths[i].name, Methods[m],
       Unwrap(Unwrap(spec).paths[i].value[Methods[m]])>> :
        <<i, m>> \in {<<i, m>> \in (1..Len(Unwrap(spec).paths)) \X (1..Len(Methods)) :
                        IsSome(Unwrap(spec).paths[i].value[Methods[m]])}}

\* the keys an operation belongs under
KeysOf(operation) ==
    IF operation.tags = <<>> THEN {DefaultTag} ELSE Elems(operation.tags)

\* C18: in the map get_operations_by_tag returns, every operation declared
\* under any of the eight methods of any path appears exactly once under
\* "Default" and under no other key if it has no tags, and exactly once
\* under each of its tags and under no other key if it has tags; no
\* operation is dropped and no key maps to an empty list.
C18_OperationsByTag ==
    (Returned("get_operations_by_tag") /\ IsSome(spec))
    => /\ result.kind = "Ok"
       /\ \A e \in DeclaredOperations :
             /\ KeysOf(e[3]) \subseteq DOMAIN result.value
             /\ \A k \in DOMAIN result.value :
                   Occurrences(result.value[k], e) =
                       IF k \in KeysOf(e[3]) THEN 1 ELSE 0
       /\ \A k \in DOMAIN result.value : Len(result.value[k]) > 0

\* a is below b in lexicographic order: a is a proper prefix of b, or at the
\* first place where they differ a has the smaller byte
LexBelow(a, b) ==
    \E k \in 1..(Len(a) + 1) :
        /\ k - 1 <= Len(b)
        /\ \A j \in 1..(k - 1) : a[j] = b[j]
        /\ IF k = Len(a) + 1 THEN Len(b) >= k
           ELSE k <= Len(b) /\ Byte[a[k]] < Byte[b[k]]

\* C19: get_all_tags returns, without duplicates and in ascending
\* lexicographic order, exactly the global tag names and the tags named by
\* the operations of the document.
C19_AllTags ==
    (Returned("get_all_tags") /\ IsSome(spec))
    => /\ result.kind = "Value"
       /\ \A i, j \in 1..Len(result.value) :
             i < j => LexBelow(result.value[i], result.value[j])
       /\ Elems(result.value) =
             {Unwrap(spec).tags[i].name : i \in 1..Len(Unwrap(spec).tags)}
             \cup UNION {Elems(e[3].tags) : e \in DeclaredOperations}

\* five tag names, some global and some of operations, some named more
\* than once, come back as B, Default, a, ab, b
C19_Witness ==
    /\ Returned("get_all_tags")
    /\ IsSome(spec)
    /\ Len(Unwrap(spec).tags) = 2
    /\ Cardinality(DeclaredOperations) > 8
    /\ result = Value(<<UpperB, DefaultTag, TagA, TagAB, TagB>>)

\* ------------------------------------------------------------------------
\* Validation
\* ------------------------------------------------------------------------
\* a file that can be read and deserialized
WellFormed(file) ==
    file.readable /\ file.wellformed /\ file.extension \in {"json", "yaml", "yml"}

BeginsWith3Dot(version) ==
    Len(version) >= 2 /\ version[1] = "3" /\ version[2] = "."

\* C20: parse_file accepts a well-formed document exactly if its version
\* string begins with "3." and info.title and info.version are non-empty;
\* otherwise it fails with UnsupportedOpenAPIVersion, the version not
\* beginning with "3.", or with MissingField naming title or version, that
\* field being empty; a document with no paths is accepted.
C20_Validation ==
    (Returned("parse_file") /\ WellFormed(call.arg))
    => LET doc == call.arg.doc IN
       /\ result.kind \in {"Ok", "Err"}
       /\ result.kind = "Ok" <=>
             /\ BeginsWith3Dot(doc.openapi)
             /\ doc.info.title # <<>>
             /\ doc.info.version # <<>>
       /\ result.kind = "Ok" => result.value = doc /\ spec = Some(doc)
       /\ result.kind = "Err" =>
             \/ /\ result.error.kind = "UnsupportedOpenAPIVersion"
                /\ ~BeginsWith3Dot(doc.openapi)
             \/ /\ result.error.kind = "MissingField"
                /\ result.error.field = Str("title")
                /\ doc.info.title = <<>>
             \/ /\ result.error.kind = "MissingField"
                /\ result.error.field = Str("version")
                /\ doc.info.version = <<>>

\* a YAML document of version 3.0 with a title, a version and no paths has
\* been accepted and stored
C20_Witness ==
    /\ Returned("parse_file")
    /\ WellFormed(call.arg)
    /\ call.arg.extension = "yml"
    /\ call.arg.doc.paths = <<>>
    /\ result = Ok(call.arg.doc)
    /\ spec = Some(call.arg.doc)

\* ------------------------------------------------------------------------
\* The stored document
\* ------------------------------------------------------------------------
\* a step that is a whole parse_file call
ParseFileStep ==
    pc = "idle" /\ pc' = "done" /\ call'.op = "parse_file"

\* C21: a parse_file call that fails leaves the stored document as it was
\* before the call, none if there was none; a call that succeeds stores the
\* document of its file in place of the one stored before.
C21_FailedParseKeepsDocument ==
    [][ParseFileStep =>
          /\ result'.kind \in {"Ok", "Err"}
          /\ result'.kind = "Err" => spec' = spec
          /\ result'.kind = "Ok" => spec' = Some(call'.arg.doc)]_vars

\* a parser that holds a document has been given a file whose document
\* fails validation, and still holds its document
C21_Witness ==
    /\ Returned("parse_file")
    /\ WellFormed(call.arg)
    /\ result.kind = "Err"
    /\ IsSome(spec)
    /\ Unwrap(spec) # call.arg.doc

\* the calls that unwrap the stored document
Unwrapping ==
    {"resolve_reference", "get_all_schemas", "get_all_tags",
     "get_operations_by_tag", "get_spec"}

ReferenceAsFirstCall ==
    Returned("resolve_reference")
    => result = resolve_reference(spec, call.arg)

\* the same for resolve_schema and get_all_schemas, h being the order in
\* which a hash set iterates
SchemaAsFirstCall(h) ==
    /\ Returned("resolve_schema")
          => result = resolve_schema(spec, call.arg, h)
    /\ (Returned("get_all_schemas") /\ result.kind = "Ok")
          => /\ Len(result.value) = Len(Table)
             /\ \A i \in 1..Len(Table) :
                   result.value[i] = <<Table[i].name, EntryOutcome(i, h).value>>
    /\ (Returned("get_all_schemas") /\ result.kind = "Err")
          => result = EntryOutcome(Min(FailingEntries), h)

\* the same for get_all_tags and get_operations_by_tag
TagsAsFirstCall(t) ==
    /\ Returned("get_all_tags") => result = get_all_tags(spec, t)
    /\ Returned("get_operations_by_tag") => result = get_operations_by_tag(spec)

\* only parse_file changes the stored document
DocumentKept == ParseFileStep \/ spec' = spec

\* C23: resolve_reference, resolve_schema, get_all_schemas,
\* get_operations_by_tag and get_all_tags leave the stored document as it
\* is, and after any sequence of earlier calls each of them returns the
\* result it returns as the first call on that document; in particular a
\* pointer that resolves is never reported as a circular reference when it
\* is resolved again.
C23_SameAsFirstCall ==
    /\ [][DocumentKept]_vars
    /\ [](/\ ReferenceAsFirstCall
          /\ \A h \in HashOrders : SchemaAsFirstCall(h)
          /\ \A t \in TagOrders : TagsAsFirstCall(t))

\* the result of resolve_schema or get_all_schemas is one the first call
\* can give, under some iteration order of each of its hash sets
SchemaAsSomeFirstCall ==
    /\ Returned("resolve_schema")
          => \E h \in HashOrders : SchemaAsFirstCall(h)
    /\ (Returned("get_all_schemas") /\ result.kind = "Err")
          => \E h \in HashOrders : SchemaAsFirstCall(h)
    /\ (Returned("get_all_schemas") /\ result.kind = "Ok")
          => /\ Len(result.value) = Len(Table)
             /\ \A i \in 1..Len(Table) : \E h \in HashOrders :
                   result.value[i] = <<Table[i].name, EntryOutcome(i, h).value>>

\* the part of C23 that holds: the document is kept, and every result is
\* one the first call can give
C23_UpToHashOrder ==
    /\ [][DocumentKept]_vars
    /\ [](/\ ReferenceAsFirstCall
          /\ SchemaAsSomeFirstCall
          /\ \A t \in TagOrders : TagsAsFirstCall(t))

\* ------------------------------------------------------------------------
\* What is left of the keywords, and references that are not followed
\* ------------------------------------------------------------------------
\* resolve_schema has resolved a reference whose target is found
ReferenceResolved ==
    /\ Returned("resolve_schema")
    /\ call.arg.kind = "Reference"
    /\ CallTarget.kind = "Ok"
    /\ result.kind = "Ok"

\* C25: resolve_schema on a reference to a schema that declares oneOf
\* returns a schema whose oneOf list is non-empty, and on a reference to a
\* schema that declares anyOf one whose anyOf list is non-empty.
C25_KeywordStaysDeclared ==
    ReferenceResolved =>
      /\ Len(CallTarget.value.one_of) > 0 => Len(result.value.one_of) > 0
      /\ Len(CallTarget.value.any_of) > 0 => Len(result.value.any_of) > 0

\* the item reference of an array schema, if it has one
ItemReference(s) ==
    IF IsSome(s.items) /\ Unwrap(s.items).kind = "Reference"
    THEN {Unwrap(s.items).reference} ELSE {}

\* the pointers that occur inside a schema: as a property, as the items of
\* a property, or as its own items
InnerReferences(s) ==
    ItemReference(s)
    \cup {s.properties[i].value.reference :
            i \in {j \in 1..Len(s.properties) :
                      s.properties[j].value.kind = "Reference"}}
    \cup UNION {ItemReference(s.properties[i].value.schema) :
                  i \in {j \in 1..Len(s.properties) :
                            s.properties[j].value.kind = "Schema"}}

\* the entries of the table that are schemas
SchemaEntries == {i \in 1..Len(Table) : Table[i].value.kind = "Schema"}

\* an entry of the table refers, inside, to its own name
RefersToItself ==
    \E i \in SchemaEntries :
        Ptr(Table[i].name) \in InnerReferences(Table[i].value.schema)

\* the properties as the entries of the table declare them
DeclaredProperties ==
    UNION {Elems(Table[i].value.schema.properties) : i \in SchemaEntries}

\* C26: resolve_schema leaves the references inside properties and items
\* as they are: a schema that refers inside to its own name or to another
\* entry resolves to a schema that still holds those references, it is
\* never reported as a circular reference, and get_all_schemas returns
\* every entry of a table that holds such schemas.
C26_InnerReferencesAreKept ==
    /\ (Returned("resolve_schema") /\ CallTarget.kind = "Ok"
           /\ InnerReferences(CallTarget.value) # {}
           /\ Len(CallTarget.value.all_of) = 0)
        => /\ result.kind = "Ok"
           /\ InnerReferences(result.value) = InnerReferences(CallTarget.value)
           /\ NoKeywords(CallTarget.value) => result.value = CallTarget.value
    /\ (Returned("resolve_schema") /\ RefersToItself
           /\ call.arg.kind = "Reference"
           /\ NamesEntry(Table, call.arg.reference))
        => /\ result.kind = "Ok"
           /\ Elems(result.value.properties) \subseteq DeclaredProperties
    /\ (Returned("get_all_schemas") /\ RefersToItself)
        => /\ result.kind = "Ok"
           /\ Len(result.value) = Len(Table)
           /\ \A i \in SchemaEntries :
                 NoKeywords(Table[i].value.schema)
                 => result.value[i] = <<Table[i].name, Table[i].value.schema>>

\* get_all_schemas has returned the three entries of a table in which A
\* refers to A in a property and in the items of a property, B refers to
\* itself as its items, and C is an allOf over both that has taken over
\* the references
C26_Witness ==
    /\ Returned("get_all_schemas")
    /\ RefersToItself
    /\ Len(Table) = 3
    /\ result.kind = "Ok"
    /\ Ptr(A) \in InnerReferences(result.value[1][2])
    /\ Ptr(B) \in InnerReferences(result.value[2][2])
    /\ {Ptr(A), Ptr(Ghost)} \subseteq InnerReferences(result.value[3][2])

\* ------------------------------------------------------------------------
\* Nested allOf
\* ------------------------------------------------------------------------
RECURSIVE AllOfLeaves(_, _)

\* the schemas without allOf that a member stands for, down to n levels of
\* allOf below it: the member itself, or the leaves of its allOf members;
\* the oneOf and anyOf lists of a schema are not entered
AllOfLeaves(member, n) ==
    LET t == IF member.kind = "Schema" THEN Ok(member.schema)
             ELSE resolve_reference(spec, member.reference)
    IN IF t.kind # "Ok" THEN {}
       ELSE IF Len(t.value.all_of) = 0 THEN {t.value}
       ELSE IF n = 0 THEN {}
       ELSE UNION {AllOfLeaves(t.value.all_of[i], n - 1) :
                      i \in 1..Len(t.value.all_of)}

\* the leaves of the allOf that the call has merged
MergedLeaves ==
    UNION {AllOfLeaves(CallTarget.value.all_of[i], MaxDepth) :
              i \in 1..Len(CallTarget.value.all_of)}

\* a schema of the variants' lists of a leaf
VariantsOf(l) ==
    {v.schema : v \in {w \in Elems(l.one_of) \cup Elems(l.any_of) :
                          w.kind = "Schema"}}

\* C27: the result of an allOf merge has exactly the properties and the
\* required names of the schemas at the leaves of the allOf, at whatever
\* depth of nested allOf, inline or behind a reference, they are; what is
\* declared only inside the oneOf or anyOf variants of a member is not in
\* the result.
C27_NestedAllOf ==
    AllOfReturned =>
      /\ Keys(result.value.properties)
            = UNION {Keys(l.properties) : l \in MergedLeaves}
      /\ Elems(result.value.required)
            = UNION {Elems(l.required) : l \in MergedLeaves}

\* an allOf has been merged whose leaves are three levels down, one of
\* them behind a reference, and whose leaf V1 has variants that declare a
\* property z that no leaf declares
C27_Witness ==
    /\ AllOfReturned
    /\ call.arg = SchemaOf([DefaultSchema EXCEPT
                               !.all_of = <<SchemaOf(L4), SchemaOf(N2)>>])
    /\ {L1, L3, L4, V1} \subseteq MergedLeaves
    /\ \E l \in MergedLeaves : l \notin {L1, L3, L4, V1}
    /\ \E v \in VariantsOf(V1) : Str("z") \in Keys(v.properties)
    /\ Str("z") \notin Keys(result.value.properties)
    /\ Str("z") \notin Elems(result.value.required)
    /\ {Str("x"), Str("y")} \subseteq Keys(result.value.properties)

\* ------------------------------------------------------------------------
\* Termination of the composition resolver
\* ------------------------------------------------------------------------
\* C28: on a parser that holds a document, resolve_schema and
\* get_all_schemas return a value or an error for every argument and every
\* document, also when an allOf member refers back, directly or through
\* another allOf, to the schema that declares the allOf.
C28_ResolverTerminates ==
    (pc = "done" /\ call.op \in {"resolve_schema", "get_all_schemas"}
       /\ IsSome(spec))
    => result.kind \in {"Ok", "Err"}

\* an entry of the table is an allOf with a member that refers to the
\* entry itself, or to an entry that is an allOf with a member that refers
\* back
AllOfRefersBack ==
    \E i, j \in SchemaEntries :
        /\ ReferenceTo(Ptr(Table[j].name)) \in Elems(Table[i].value.schema.all_of)
        /\ ReferenceTo(Ptr(Table[i].name)) \in Elems(Table[j].value.schema.all_of)

\* the part of C28 that holds: the calls return a value or an error on
\* every document in which no allOf refers back to itself
C28_WithoutAllOfCycle ==
    (pc = "done" /\ call.op \in {"resolve_schema", "get_all_schemas"}
       /\ IsSome(spec) /\ ~AllOfRefersBack)
    => result.kind \in {"Ok", "Err"}

\* ------------------------------------------------------------------------
\* The keys of the operations map and the tags
\* ------------------------------------------------------------------------
\* the tag names the stored document names itself, in its global tag
\* declarations and in the tag lists of its operations
NamedTags ==
    {Unwrap(spec).tags[i].name : i \in 1..Len(Unwrap(spec).tags)}
    \cup UNION {Elems(e[3].tags) : e \in DeclaredOperations}

\* C30: every key of the map get_operations_by_tag returns is "Default" or
\* an element of what get_all_tags returns for the same document, and
\* get_all_tags returns "Default" only if a global tag declaration or an
\* operation names it: an operation without tags, filed under "Default"
\* in the map, does not add it.
C30_KeysAreTags ==
    /\ (Returned("get_operations_by_tag") /\ IsSome(spec))
        => \A t \in TagOrders :
              (DOMAIN result.value) \ {DefaultTag}
                 \subseteq Elems(get_all_tags(spec, t).value)
    /\ (Returned("get_all_tags") /\ IsSome(spec))
        => (DefaultTag \in Elems(result.value) <=> DefaultTag \in NamedTags)

\* operations without tags are filed under "Default" next to operations
\* under a and b, and get_all_tags of this document has a and b and no
\* "Default"
C30_Witness ==
    /\ Returned("get_operations_by_tag")
    /\ IsSome(spec)
    /\ \E e \in DeclaredOperations : e[3].tags = <<>>
    /\ {DefaultTag, TagA, TagB} \subseteq DOMAIN result.value
    /\ \A t \in TagOrders :
          /\ DefaultTag \notin Elems(get_all_tags(spec, t).value)
          /\ {TagA, TagB} \subseteq Elems(get_all_tags(spec, t).value)

\* ------------------------------------------------------------------------
\* Calls on worker threads
\* ------------------------------------------------------------------------
\* the result of a finished call of worker w is the one the same call
\* gives when it runs alone, h being the order in which its hash set
\* iterates there
AsRunAlone(w, h) ==
    workers[w].result = resolve_schema(spec, workers[w].arg, h)

\* C24: resolve_schema calls that run at the same time on worker threads
\* against one stored document return, under every interleaving of their
\* steps, the results the same calls return when they run one after
\* another.
C24_WorkersAsOneAfterAnother ==
    \A w \in Workers :
        workers[w].pc = "done" => \A h \in HashOrders : AsRunAlone(w, h)

\* the part of C24 that holds: under every interleaving a call returns a
\* result it can return when it runs alone, under some iteration order of
\* its hash set, and the stored document stays as it is
C24_UpToHashOrder ==
    /\ [][spec' = spec]_vars
    /\ [](\A w \in Workers :
            workers[w].pc = "done" => \E h \in HashOrders : AsRunAlone(w, h))

\* two workers are in the recursion of resolve_reference at once, on the
\* same pointer
BothResolving ==
    /\ \A w \in Workers : workers[w].pc = "resolving"
    /\ workers[1].reference = workers[2].reference
    /\ workers[1].visited # workers[2].visited

\* ------------------------------------------------------------------------
\* The output of a failed run
\* ------------------------------------------------------------------------
GenerateFailed == gen.step = "done" /\ gen.result.kind = "Err"

\* C29: when generate returns an error, whatever the step that failed, no
\* generated file is in the output directory; a failure while the
\* controllers are generated leaves no model file behind.
C29_NoPartialOutput ==
    GenerateFailed => gen.written = <<>>

\* the part of C29 that holds: a run that fails while it parses and
\* validates the file or creates the output directory leaves no file
C29_FailedBeforeWriting ==
    (/\ GenerateFailed
     /\ \/ gen.result.error.kind \in {"FileNotFound", "InvalidJson", "InvalidYaml",
                                      "UnsupportedFormat", "MissingField",
                                      "UnsupportedOpenAPIVersion"}
        \/ gen.result.error = io_error(Str("Failed to create output directory")))
    => gen.written = <<>>

\* a controller does not convert, or is not written, after model files have
\* been written
ControllersFailAfterModels ==
    /\ GenerateFailed
    /\ gen.written # <<>>
    /\ \A i \in 1..Len(gen.written) : gen.written[i][1] = "model"
    /\ gen.pending = <<>>

====
